---- MODULE Spec2Model ----
(***************************************************************************)
(* fay: the AsyncActionRunner (src/fay/app.py) and the picker run that     *)
(* drives it (run_picker), as a state machine of two threads: the render  *)
(* thread, which calls submit/shutdown, and the runner's worker thread.    *)
(* The Condition's lock is explicit: a `with self._condition:` block is an *)
(* acquire step followed by its body, which releases the lock at its end;  *)
(* wait() releases the lock and blocks until a notify_all() wakes it.      *)
(***************************************************************************)
EXTENDS Integers, Sequences, FiniteSets, TLC

\* Most submit calls one run of the model makes.
MaxSubmits == 3

\* Most previews one picker run submits.
MaxPreviews == 2

\* Images in the picker's directory.
NumImages == 2

\* Images the thumbnail and texture caches are asked for.
NumThumbs == 3

\* Largest max_items a TextureCache is built with.
MaxItems == 2

\* Largest max_jobs process is called with.
MaxBudget == 2

\* Most GPU handles one run of the model creates.

\* THUMB_BUILD_BUDGET_IDLE: the budget the picker's frame loop gives process.
THUMB_BUILD_BUDGET_IDLE == 1

VARIABLES
    pending,        \* _pending_action: 0 is None, else the id of the submitted action
    running,        \* _running
    closed,         \* _closed
    lock,           \* holder of the Condition's lock: "free", "worker", "render"
    wpc,            \* the worker thread's position in _run
    action,         \* _run's local `action` (0 is None)
    outcome,        \* how the action the worker last executed ended: "none", "ok", "raise"
    rpc,            \* the render thread's position
    arg,            \* the argument of the submit call in progress
    flush,          \* the flush_pending argument of the shutdown call
    sd,             \* shutdown: "none" (not called), "called", "returned"
    nsub,           \* submit calls made so far; the n-th submitted action has id n
    started,        \* ids of the actions the worker has called, in call order
    finished,       \* ids of the actions whose call has ended (returned or raised)
    raised,         \* ids of the actions whose call raised
    replaced,       \* ids overwritten in the slot by a later submit
    pendAtCall,     \* the slot's content when shutdown was called
    runAtCall,      \* the action the worker held (taken, not yet finished) when shutdown was called
    clearedAtClose, \* the slot's content that shutdown's close block discarded
    nsubAtCall,     \* nsub when shutdown was called
    picker,         \* TRUE when the render thread runs run_picker
    reqMode,        \* run_picker's normalized_mode: "auto" or "fill"
    backend,        \* the resolved backend: "feh" or "hyprpaper"
    startupState,   \* whether capture_current returned a state
    selected,       \* run_picker's selected index
    lastAuto,       \* last_auto_preview_index (0 is None)
    exitKind,       \* exit_kind
    imgOf,          \* the image each submitted preview action is for
    sizeCache,      \* ApplyContext.image_size_cache: the images whose size is cached
    cacheTouched,   \* the threads that have read or written image_size_cache
    wallpaper,      \* the image the desktop shows: 0 is the one found at startup
    store,          \* ThumbnailStore: pending, pending_set, failed; the thumbnail files
                    \* on disk (exists); the images whose dimensions are cached (dims)
    cache,          \* TextureCache.cache: <<key, handle>> pairs, least recently used first
    texFailed,      \* TextureCache.failed
    maxItems,       \* TextureCache.max_items
    gpu,            \* raylib's textures: the live handles, and whether a handle that was not live was unloaded
    useOrder,       \* the held keys in the order of their last get, oldest first
    env,            \* EnvironmentInfo: the session's signals and the commands on PATH
    reqId,          \* the backend id BackendRegistry.resolve is asked for
    choice,         \* the BackendChoice resolve returned
    imageSize,      \* the image_size resolve_auto_mode is given: known is FALSE for None
    screen,         \* <<screen_width, screen_height>>
    modeOut,        \* what resolve_auto_mode returned ("none" before the call)
    bkId,           \* the id of the backend the calls go to
    ipcDurable,     \* whether what swaymsg, hyprctl and swww set outlives the session
    durable,        \* what the backend's session restore shows at next login
    last,           \* the last backend call: op, persist_now, the commands issued, ok
    stateFile,      \* last_selection.json: whether it can be read, and what it holds
    loaded,         \* what load_last_selection returned or raised ("unset" before the call)
    cmd,            \* the command cli.main dispatches: "picker" or "restore"
    mpc,            \* the position in run_picker or run_restore
    rc,             \* what run_picker or run_restore returned (-1 before it returns)
    finalOk,        \* final_result.ok in run_picker, result.ok in run_restore
    fileBefore,     \* the state file as it was when the command started
    restoreCall,    \* run_picker's backend.restore call: "none", "ok" or "failed"
    toSave,         \* final_state_to_save, as the JSON object it is saved as (kind "None" for None)
    dconf,          \* org.gnome.desktop.background: picture-options, picture-uri, picture-uri-dark
    dconfAtCapture, \* dconf at the time of capture_current
    captured        \* what GnomeBackend.capture_current returned ("unset" before the call)

runnerVars == <<pending, running, closed, lock, wpc, action, outcome>>
clientVars == <<rpc, arg, flush, sd, nsub>>
histVars == <<started, finished, raised, replaced, pendAtCall, runAtCall,
              clearedAtClose, nsubAtCall>>
argVars == <<picker, reqMode, backend, startupState>>
loopVars == <<selected, lastAuto, exitKind, imgOf>>
sharedVars == <<sizeCache, cacheTouched, wallpaper>>
pickerVars == <<argVars, loopVars, sharedVars>>
mediaVars == <<store, cache, texFailed, maxItems, gpu, useOrder>>
registryVars == <<env, reqId, choice>>
modeVars == <<imageSize, screen, modeOut>>
backendVars == <<bkId, ipcDurable, durable, last>>
loadVars == <<stateFile, loaded>>
mainVars == <<cmd, mpc, rc, finalOk, fileBefore, restoreCall, toSave>>
gnomeVars == <<dconf, dconfAtCapture, captured>>
tailVars == <<mainVars, gnomeVars>>
extVars == <<registryVars, modeVars, backendVars, loadVars, tailVars>>
vars == <<runnerVars, clientVars, histVars, pickerVars, mediaVars, extVars>>

Range(s) == {s[i] : i \in DOMAIN s}

(***************************************************************************)
(* threading.Condition                                                     *)
(***************************************************************************)

\* notify_all(): every thread blocked in wait() is woken; it still has to
\* reacquire the lock before wait() returns.
WokenWorker(pc) == IF pc = "wait" THEN "woken" ELSE pc
WokenRender(pc) == IF pc = "flush_wait" THEN "flush_woken" ELSE pc

(***************************************************************************)
(* AsyncActionRunner.__init__                                              *)
(***************************************************************************)

RunnerInit ==
    /\ pending = 0
    /\ running = FALSE
    /\ closed = FALSE
    /\ lock = "free"
    /\ wpc = "top"
    /\ action = 0
    /\ outcome = "none"

ClientInit ==
    /\ rpc = "idle"
    /\ arg = 0
    /\ flush = FALSE
    /\ sd = "none"
    /\ nsub = 0

HistInit ==
    /\ started = <<>>
    /\ finished = {}
    /\ raised = {}
    /\ replaced = {}
    /\ pendAtCall = 0
    /\ runAtCall = 0
    /\ clearedAtClose = 0
    /\ nsubAtCall = 0

\* The picker's state while the runner is driven through its API alone.
NoPicker ==
    /\ picker = FALSE
    /\ reqMode = "fill"
    /\ backend = "feh"
    /\ startupState = FALSE
    /\ selected = 1
    /\ lastAuto = 0
    /\ exitKind = "cancel"
    /\ imgOf = <<>>
    /\ sizeCache = {}
    /\ cacheTouched = {}
    /\ wallpaper = 0

\* No texture was uploaded.
NoTextures == [live |-> {}, misfreed |-> FALSE]

\* The caches' state while they are not used: a store and a texture cache
\* just built, over an empty cache directory.
NoMedia ==
    /\ store = [pending |-> <<>>, pending_set |-> {}, failed |-> {},
                exists |-> {}, dims |-> {}]
    /\ cache = <<>>
    /\ texFailed = {}
    /\ maxItems = MaxItems
    /\ gpu = NoTextures
    /\ useOrder = <<>>

\* No backend was resolved: an empty environment, nothing asked.
NoChoice == [backend |-> "none", reason |-> "none"]

NoEnv == [session_type |-> "", desktop |-> ":", wayland_display |-> FALSE,
          x_display |-> FALSE, hyprland |-> FALSE, sway |-> FALSE,
          commands |-> {}]

NoRegistry ==
    /\ env = NoEnv
    /\ reqId = "auto"
    /\ choice = NoChoice

\* No mode was resolved.
NoModes ==
    /\ imageSize = [known |-> FALSE, w |-> 0, h |-> 0]
    /\ screen = <<0, 0>>
    /\ modeOut = "none"

\* Nothing is set to be shown at next login.
NoWallpaper == [image |-> "", option |-> ""]

\* No backend call was made.
NoCall == [op |-> "none", persist_now |-> FALSE, issued |-> <<>>, ok |-> FALSE]

NoBackend ==
    /\ bkId = "feh"
    /\ ipcDurable = FALSE
    /\ durable = NoWallpaper
    /\ last = NoCall

\* A state file that does not hold the given JSON fields.
FileOf(kind) ==
    [kind |-> kind, backend_id |-> "<missing>", image_path |-> "<missing>",
     mode |-> "<missing>", backend_state |-> "<missing>"]

\* What a load yields that is not a WallpaperState: None, an exception,
\* or "unset" while nothing was loaded.
NotAState(kind) ==
    [kind |-> kind, backend_id |-> "", image_path |-> "", mode |-> "",
     backend_state |-> ""]

\* No state file, nothing loaded.
NoLoad ==
    /\ stateFile = FileOf("missing")
    /\ loaded = NotAState("unset")

\* No command was dispatched.
NoMain ==
    /\ cmd = "none"
    /\ mpc = "none"
    /\ rc = -1
    /\ finalOk = TRUE
    /\ fileBefore = FileOf("missing")
    /\ restoreCall = "none"
    /\ toSave = FileOf("None")

\* The background settings no session has set.
NoSettings == [options |-> "zoom", uri |-> "", dark |-> ""]

\* What capture_current yields that is no WallpaperState: None, or "unset"
\* while it was not called.
NotCaptured(kind) == [kind |-> kind, path |-> "", mode |-> "", picture_options |-> ""]

NoGnome ==
    /\ dconf = NoSettings
    /\ dconfAtCapture = NoSettings
    /\ captured = NotCaptured("unset")

NoTail == NoMain /\ NoGnome

\* The state of the parts a run does not use.
NoExt == NoRegistry /\ NoModes /\ NoBackend /\ NoLoad /\ NoTail

Init == RunnerInit /\ ClientInit /\ HistInit /\ NoPicker /\ NoMedia /\ NoExt

(***************************************************************************)
(* AsyncActionRunner.submit                                                *)
(***************************************************************************)

\* The render thread calls submit(action): the new action gets the next id.
CallSubmit ==
    /\ rpc = "idle"
    /\ nsub < MaxSubmits
    /\ rpc' = "submit"
    /\ arg' = nsub + 1
    /\ nsub' = nsub + 1
    /\ UNCHANGED <<flush, sd, runnerVars, histVars, pickerVars, mediaVars, extVars>>

\* `with self._condition:` of submit.
SubmitAcquire ==
    /\ rpc = "submit"
    /\ lock = "free"
    /\ lock' = "render"
    /\ rpc' = "submit_cs"
    /\ UNCHANGED <<pending, running, closed, wpc, action, outcome,
                   arg, flush, sd, nsub, histVars, pickerVars, mediaVars, extVars>>

\* Variant of SubmitBody that stores the action without looking at _closed.
SubmitBodyNoClosedCheck ==
    /\ rpc = "submit_cs"
    /\ pending' = arg
    /\ replaced' = IF pending # 0 THEN replaced \cup {pending} ELSE replaced
    /\ wpc' = WokenWorker(wpc)
    /\ lock' = "free"
    /\ rpc' = "idle"
    /\ UNCHANGED <<running, closed, action, outcome, arg, flush, sd, nsub,
                   started, finished, raised, pendAtCall, runAtCall,
                   clearedAtClose, nsubAtCall, pickerVars, mediaVars, extVars>>

\* Variant of SubmitBody that keeps an action already in the slot.
SubmitBodyKeepFirst ==
    /\ rpc = "submit_cs"
    /\ IF closed \/ pending # 0
         THEN UNCHANGED <<pending, wpc>>
         ELSE /\ pending' = arg
              /\ wpc' = WokenWorker(wpc)
    /\ lock' = "free"
    /\ rpc' = "idle"
    /\ UNCHANGED <<running, closed, action, outcome, arg, flush, sd, nsub,
                   histVars, pickerVars, mediaVars, extVars>>

\* Variant of SubmitBody that stores the action without notify_all().
SubmitBodyNoNotify ==
    /\ rpc = "submit_cs"
    /\ IF closed
         THEN UNCHANGED <<pending, replaced>>
         ELSE /\ pending' = arg
              /\ replaced' = IF pending # 0 THEN replaced \cup {pending} ELSE replaced
    /\ lock' = "free"
    /\ rpc' = "idle"
    /\ UNCHANGED <<running, closed, wpc, action, outcome, arg, flush, sd, nsub,
                   started, finished, raised, pendAtCall, runAtCall,
                   clearedAtClose, nsubAtCall, pickerVars, mediaVars, extVars>>

\* The body of submit: dropped when closed, else the slot is overwritten and
\* the waiters are notified; the lock is released on the way out.
SubmitBody ==
    /\ rpc = "submit_cs"
    /\ IF closed
         THEN UNCHANGED <<pending, replaced, wpc>>
         ELSE /\ pending' = arg
              /\ replaced' = IF pending # 0 THEN replaced \cup {pending} ELSE replaced
              /\ wpc' = WokenWorker(wpc)
    /\ lock' = "free"
    /\ rpc' = "idle"
    /\ UNCHANGED <<running, closed, action, outcome, arg, flush, sd, nsub,
                   started, finished, raised, pendAtCall, runAtCall,
                   clearedAtClose, nsubAtCall, pickerVars, mediaVars, extVars>>

(***************************************************************************)
(* AsyncActionRunner._run                                                  *)
(***************************************************************************)

\* `with self._condition:` at the top of the worker's loop.
W_Acquire ==
    /\ wpc = "top"
    /\ lock = "free"
    /\ lock' = "worker"
    /\ wpc' = "cs"
    /\ UNCHANGED <<pending, running, closed, action, outcome,
                   clientVars, histVars, pickerVars, mediaVars, extVars>>

\* wait() returns once the woken worker holds the lock again; the loop
\* condition is then evaluated afresh.
W_Reacquire ==
    /\ wpc = "woken"
    /\ lock = "free"
    /\ lock' = "worker"
    /\ wpc' = "cs"
    /\ UNCHANGED <<pending, running, closed, action, outcome,
                   clientVars, histVars, pickerVars, mediaVars, extVars>>

\* `while self._pending_action is None and not self._closed: wait()`.
W_Wait ==
    /\ wpc = "cs"
    /\ pending = 0 /\ ~closed
    /\ lock' = "free"
    /\ wpc' = "wait"
    /\ UNCHANGED <<pending, running, closed, action, outcome,
                   clientVars, histVars, pickerVars, mediaVars, extVars>>

\* `if self._closed and self._pending_action is None: return`.
W_Exit ==
    /\ wpc = "cs"
    /\ closed /\ pending = 0
    /\ lock' = "free"
    /\ wpc' = "done"
    /\ UNCHANGED <<pending, running, closed, action, outcome,
                   clientVars, histVars, pickerVars, mediaVars, extVars>>

\* Variant of W_Take that leaves the action in the slot.
W_TakeNoClear ==
    /\ wpc = "cs"
    /\ pending # 0
    /\ action' = pending
    /\ running' = TRUE
    /\ lock' = "free"
    /\ wpc' = "call"
    /\ UNCHANGED <<pending, closed, outcome, clientVars, histVars, pickerVars, mediaVars, extVars>>

\* Variant of W_Take that calls the action inside the `with` block.
W_TakeHoldingLock ==
    /\ wpc = "cs"
    /\ pending # 0
    /\ action' = pending
    /\ pending' = 0
    /\ running' = TRUE
    /\ wpc' = "call"
    /\ UNCHANGED <<lock, closed, outcome, clientVars, histVars, pickerVars, mediaVars, extVars>>

\* The worker takes the pending action, empties the slot, marks running and
\* leaves the `with` block.
W_Take ==
    /\ wpc = "cs"
    /\ pending # 0
    /\ action' = pending
    /\ pending' = 0
    /\ running' = TRUE
    /\ lock' = "free"
    /\ wpc' = "call"
    /\ UNCHANGED <<closed, outcome, clientVars, histVars, pickerVars, mediaVars, extVars>>

\* `if action is not None: action()`: the call begins, outside the lock.
W_Call ==
    /\ wpc = "call"
    /\ IF action # 0
         THEN /\ started' = Append(started, action)
              /\ wpc' = "inaction"
              /\ UNCHANGED <<outcome, finished>>
         ELSE /\ wpc' = "fin"
              /\ outcome' = "ok"
              /\ UNCHANGED <<started, finished>>
    /\ UNCHANGED <<pending, running, closed, lock, action, clientVars,
                   raised, replaced, pendAtCall, runAtCall, clearedAtClose,
                   nsubAtCall, pickerVars, mediaVars, extVars>>

\* The call ends: it returns, or raises an Exception that `except Exception:
\* pass` catches; either way control reaches the `finally` block.
W_ActionEnd ==
    /\ wpc = "inaction"
    /\ ~picker
    /\ \E o \in {"ok", "raise"} :
         /\ outcome' = o
         /\ raised' = IF o = "raise" THEN raised \cup {action} ELSE raised
    /\ finished' = finished \cup {action}
    /\ wpc' = "fin"
    /\ UNCHANGED <<pending, running, closed, lock, action, clientVars,
                   started, replaced, pendAtCall, runAtCall, clearedAtClose,
                   nsubAtCall, pickerVars, mediaVars, extVars>>

\* `with self._condition:` of the finally block.
W_FinAcquire ==
    /\ wpc = "fin"
    /\ lock = "free"
    /\ lock' = "worker"
    /\ wpc' = "fin_cs"
    /\ UNCHANGED <<pending, running, closed, action, outcome,
                   clientVars, histVars, pickerVars, mediaVars, extVars>>

\* Where the worker goes after the finally block if the exception were not
\* caught: the thread ends.
AfterFinallyPropagating(o) == IF o = "raise" THEN "done" ELSE "top"

\* Where the worker goes after the finally block: the exception was
\* swallowed, so the loop goes round whatever the outcome.
AfterFinally(o) == "top"

\* The finally block: running is cleared and the waiters are notified.
W_Finish ==
    /\ wpc = "fin_cs"
    /\ running' = FALSE
    /\ rpc' = WokenRender(rpc)
    /\ lock' = "free"
    /\ wpc' = AfterFinally(outcome)
    /\ UNCHANGED <<pending, closed, action, outcome, arg, flush, sd, nsub,
                   histVars, pickerVars, mediaVars, extVars>>

(***************************************************************************)
(* AsyncActionRunner.shutdown                                              *)
(***************************************************************************)

\* The render thread calls shutdown(flush_pending).
CallShutdown ==
    /\ rpc = "idle"
    /\ sd = "none"
    /\ ~picker
    /\ \E f \in BOOLEAN :
         /\ flush' = f
         /\ rpc' = IF f THEN "flush" ELSE "close"
    /\ sd' = "called"
    /\ pendAtCall' = pending
    /\ runAtCall' = IF running THEN action ELSE 0
    /\ nsubAtCall' = nsub
    /\ UNCHANGED <<arg, nsub, runnerVars, started, finished, raised, replaced,
                   clearedAtClose, pickerVars, mediaVars, extVars>>

\* `with self._condition:` of the flush block, and the reacquire that ends
\* a wait() in it.
FlushAcquire ==
    /\ rpc \in {"flush", "flush_woken"}
    /\ lock = "free"
    /\ lock' = "render"
    /\ rpc' = "flush_cs"
    /\ UNCHANGED <<pending, running, closed, wpc, action, outcome,
                   arg, flush, sd, nsub, histVars, pickerVars, mediaVars, extVars>>

\* `while self._pending_action is not None or self._running: wait()`.
FlushWait ==
    /\ rpc = "flush_cs"
    /\ pending # 0 \/ running
    /\ lock' = "free"
    /\ rpc' = "flush_wait"
    /\ UNCHANGED <<pending, running, closed, wpc, action, outcome,
                   arg, flush, sd, nsub, histVars, pickerVars, mediaVars, extVars>>

\* Variant of FlushDone whose loop tests the slot alone.
FlushDoneIgnoringRunning ==
    /\ rpc = "flush_cs"
    /\ pending = 0
    /\ lock' = "free"
    /\ rpc' = "close"
    /\ UNCHANGED <<pending, running, closed, wpc, action, outcome,
                   arg, flush, sd, nsub, histVars, pickerVars, mediaVars, extVars>>

\* The flush loop ends: nothing pending, nothing running.
FlushDone ==
    /\ rpc = "flush_cs"
    /\ ~(pending # 0 \/ running)
    /\ lock' = "free"
    /\ rpc' = "close"
    /\ UNCHANGED <<pending, running, closed, wpc, action, outcome,
                   arg, flush, sd, nsub, histVars, pickerVars, mediaVars, extVars>>

\* `with self._condition:` of the close block.
CloseAcquire ==
    /\ rpc = "close"
    /\ lock = "free"
    /\ lock' = "render"
    /\ rpc' = "close_cs"
    /\ UNCHANGED <<pending, running, closed, wpc, action, outcome,
                   arg, flush, sd, nsub, histVars, pickerVars, mediaVars, extVars>>

\* Variant of CloseBody that leaves the slot as it is.
CloseBodyKeepPending ==
    /\ rpc = "close_cs"
    /\ closed' = TRUE
    /\ clearedAtClose' = pending
    /\ wpc' = WokenWorker(wpc)
    /\ lock' = "free"
    /\ rpc' = "join"
    /\ UNCHANGED <<pending, running, action, outcome, arg, flush, sd, nsub,
                   started, finished, raised, replaced, pendAtCall, runAtCall,
                   nsubAtCall, pickerVars, mediaVars, extVars>>

\* Variant of CloseBody that marks closed without notify_all().
CloseBodyNoNotify ==
    /\ rpc = "close_cs"
    /\ closed' = TRUE
    /\ clearedAtClose' = pending
    /\ pending' = 0
    /\ lock' = "free"
    /\ rpc' = "join"
    /\ UNCHANGED <<running, wpc, action, outcome, arg, flush, sd, nsub,
                   started, finished, raised, replaced, pendAtCall, runAtCall,
                   nsubAtCall, pickerVars, mediaVars, extVars>>

\* The close block: closed is set, the slot is emptied, the waiters are
\* notified.
CloseBody ==
    /\ rpc = "close_cs"
    /\ closed' = TRUE
    /\ clearedAtClose' = pending
    /\ pending' = 0
    /\ wpc' = WokenWorker(wpc)
    /\ lock' = "free"
    /\ rpc' = "join"
    /\ UNCHANGED <<running, action, outcome, arg, flush, sd, nsub,
                   started, finished, raised, replaced, pendAtCall, runAtCall,
                   nsubAtCall, pickerVars, mediaVars, extVars>>

\* Variant of Join that returns whether or not the worker thread has ended.
JoinNotWaiting ==
    /\ rpc = "join"
    /\ sd' = "returned"
    /\ rpc' = IF picker THEN "post" ELSE "idle"
    /\ UNCHANGED <<arg, flush, nsub, runnerVars, histVars, pickerVars, mediaVars, extVars>>

\* `self._thread.join()`: returns once the worker thread has ended.
Join ==
    /\ rpc = "join"
    /\ wpc = "done"
    /\ sd' = "returned"
    /\ rpc' = IF picker THEN "post" ELSE "idle"
    /\ UNCHANGED <<arg, flush, nsub, runnerVars, histVars, pickerVars, mediaVars, extVars>>

WorkerNext ==
    \/ W_Acquire
    \/ W_Reacquire
    \/ W_Wait
    \/ W_Exit
    \/ W_Take
    \/ W_Call
    \/ W_FinAcquire
    \/ W_Finish

ShutdownNext ==
    \/ FlushAcquire
    \/ FlushWait
    \/ FlushDone
    \/ CloseAcquire
    \/ CloseBody
    \/ Join

Next ==
    \/ CallSubmit
    \/ SubmitAcquire
    \/ SubmitBody
    \/ CallShutdown
    \/ ShutdownNext
    \/ WorkerNext
    \/ W_ActionEnd

Spec == Init /\ [][Next]_vars

\* Scheduling: both threads are OS threads, so a step that stays possible is
\* eventually taken, and every started action ends.  The calls the render
\* thread chooses to make (CallSubmit, CallShutdown) are not forced.
Fairness ==
    /\ WF_vars(WorkerNext)
    /\ WF_vars(W_ActionEnd)
    /\ WF_vars(SubmitAcquire)
    /\ WF_vars(SubmitBody)
    /\ WF_vars(ShutdownNext)

FairSpec == Init /\ [][Next]_vars /\ Fairness

(***************************************************************************)
(* run_picker: the render thread's frame loop with auto-preview enabled,   *)
(* and the preview actions it hands to the worker.                         *)
(***************************************************************************)

Images == 1..NumImages

\* effective_mode probes the image size only for the requested mode "auto";
\* HyprpaperBackend.apply does not call effective_mode at all.
PreviewProbes == reqMode = "auto" /\ backend # "hyprpaper"

\* The state in which the frame loop starts; the runner has just been built.
PickerInit ==
    /\ RunnerInit /\ ClientInit /\ HistInit
    /\ picker = TRUE
    /\ reqMode \in {"auto", "fill"}
    /\ backend \in {"feh", "hyprpaper"}
    /\ startupState \in BOOLEAN
    /\ selected = 1
    /\ lastAuto = 0
    /\ exitKind = "cancel"
    /\ imgOf = <<>>
    /\ sizeCache = {}
    /\ cacheTouched = {}
    /\ wallpaper = 0
    /\ NoMedia
    /\ NoExt

\* A frame in which a navigation key is first pressed: the selection moves by
\* one and a preview of the new selection is submitted.
P_NavigatePress ==
    /\ rpc = "idle"
    /\ sd = "none"
    /\ NumImages > 1
    /\ nsub < MaxPreviews
    /\ \E step \in {1, NumImages - 1} :
         LET sel == ((selected - 1 + step) % NumImages) + 1 IN
         /\ selected' = sel
         /\ lastAuto' = sel
         /\ imgOf' = Append(imgOf, sel)
    /\ rpc' = "submit"
    /\ arg' = nsub + 1
    /\ nsub' = nsub + 1
    /\ UNCHANGED <<flush, sd, exitKind, runnerVars, histVars, argVars, sharedVars, mediaVars, extVars>>

\* A frame in which a held key repeats: the selection moves, nothing is
\* submitted.
P_NavigateRepeat ==
    /\ rpc = "idle"
    /\ sd = "none"
    /\ NumImages > 1
    /\ \E step \in {1, NumImages - 1} :
         selected' = ((selected - 1 + step) % NumImages) + 1
    /\ lastAuto' = 0
    /\ UNCHANGED <<exitKind, imgOf, clientVars, runnerVars, histVars, argVars,
                   sharedVars, mediaVars, extVars>>

\* A frame with no key down, the selection dwelt on and its texture loaded:
\* a preview of the selection is submitted unless it was the last one.
P_DwellPreview ==
    /\ rpc = "idle"
    /\ sd = "none"
    /\ nsub < MaxPreviews
    /\ lastAuto # selected
    /\ lastAuto' = selected
    /\ imgOf' = Append(imgOf, selected)
    /\ rpc' = "submit"
    /\ arg' = nsub + 1
    /\ nsub' = nsub + 1
    /\ UNCHANGED <<flush, sd, selected, exitKind, runnerVars, histVars, argVars,
                   sharedVars, mediaVars, extVars>>

\* The R key: the image list is reloaded and image_size_cache is cleared.
P_Reload ==
    /\ rpc = "idle"
    /\ sd = "none"
    /\ sizeCache' = {}
    /\ cacheTouched' = cacheTouched \cup {"render"}
    /\ lastAuto' = 0
    /\ UNCHANGED <<selected, exitKind, imgOf, wallpaper, clientVars, runnerVars,
                   histVars, argVars, mediaVars, extVars>>

\* Enter: effective_mode(normalized_mode, selected_image, apply_context) on
\* the render thread; for "auto" it looks the size up in image_size_cache and
\* on a miss goes on to load the image.
P_ConfirmMode ==
    /\ rpc = "idle"
    /\ sd = "none"
    /\ IF reqMode = "auto"
         THEN /\ cacheTouched' = cacheTouched \cup {"render"}
              /\ rpc' = IF selected \in sizeCache THEN "applying" ELSE "probe"
         ELSE /\ rpc' = "applying"
              /\ UNCHANGED cacheTouched
    /\ UNCHANGED <<arg, flush, sd, nsub, sizeCache, wallpaper, runnerVars,
                   histVars, argVars, loopVars, mediaVars, extVars>>

\* probe_image_size on the render thread: the image is loaded and, if its
\* dimensions are positive, stored in image_size_cache.
P_ConfirmProbe ==
    /\ rpc = "probe"
    /\ \E valid \in BOOLEAN :
         IF valid
           THEN /\ sizeCache' = sizeCache \cup {selected}
                /\ cacheTouched' = cacheTouched \cup {"render"}
           ELSE UNCHANGED <<sizeCache, cacheTouched>>
    /\ rpc' = "applying"
    /\ UNCHANGED <<arg, flush, sd, nsub, wallpaper, runnerVars, histVars,
                   argVars, loopVars, mediaVars, extVars>>

\* backend.apply(selected_image, resolved_mode, apply_context,
\* persist_now=True), called and awaited by the render thread inside the
\* frame loop; its result decides exit_kind and the loop is left.
P_ConfirmApply ==
    /\ rpc = "applying"
    /\ \E ok \in BOOLEAN :
         /\ exitKind' = IF ok THEN "confirm" ELSE "error"
         /\ wallpaper' = IF ok THEN selected ELSE wallpaper
    /\ rpc' = "exit"
    /\ UNCHANGED <<arg, flush, sd, nsub, selected, lastAuto, imgOf, sizeCache,
                   cacheTouched, runnerVars, histVars, argVars, mediaVars, extVars>>

\* Escape, Q or the window closing: the loop is left with exit_kind "cancel".
P_Cancel ==
    /\ rpc = "idle"
    /\ sd = "none"
    /\ exitKind' = "cancel"
    /\ rpc' = "exit"
    /\ UNCHANGED <<arg, flush, sd, nsub, selected, lastAuto, imgOf, runnerVars,
                   histVars, argVars, sharedVars, mediaVars, extVars>>

\* preview_runner.shutdown(flush_pending=False) after the loop.
P_Shutdown ==
    /\ rpc = "exit"
    /\ flush' = FALSE
    /\ sd' = "called"
    /\ rpc' = "close"
    /\ pendAtCall' = pending
    /\ runAtCall' = IF running THEN action ELSE 0
    /\ nsubAtCall' = nsub
    /\ UNCHANGED <<arg, nsub, runnerVars, started, finished, raised, replaced,
                   clearedAtClose, pickerVars, mediaVars, extVars>>

\* After shutdown: on cancel with a captured startup state,
\* backend.restore(startup_state, apply_context) on the render thread.
P_Restore ==
    /\ rpc = "post"
    /\ IF exitKind = "cancel" /\ startupState
         THEN \E ok \in BOOLEAN :
                /\ wallpaper' = IF ok THEN 0 ELSE wallpaper
                /\ restoreCall' = IF ok THEN "ok" ELSE "failed"
         ELSE UNCHANGED <<wallpaper, restoreCall>>
    /\ rpc' = "end"
    /\ UNCHANGED <<arg, flush, sd, nsub, sizeCache, cacheTouched, runnerVars,
                   histVars, argVars, loopVars, mediaVars, registryVars,
                   modeVars, backendVars, loadVars, cmd, mpc, rc, finalOk,
                   fileBefore, toSave, gnomeVars>>

\* The submitted action runs on the worker: backend.preview(path,
\* normalized_mode, apply_context), that is apply(..., persist_now=False),
\* which starts with effective_mode: for "auto" it looks the size up in
\* image_size_cache and on a miss goes on to load the image.
W_PreviewMode ==
    /\ wpc = "inaction"
    /\ picker
    /\ IF PreviewProbes
         THEN /\ cacheTouched' = cacheTouched \cup {"worker"}
              /\ wpc' = IF imgOf[action] \in sizeCache THEN "cmd" ELSE "probe"
         ELSE /\ wpc' = "cmd"
              /\ UNCHANGED cacheTouched
    /\ UNCHANGED <<pending, running, closed, lock, action, outcome, clientVars,
                   histVars, argVars, loopVars, sizeCache, wallpaper, mediaVars, extVars>>

\* probe_image_size on the worker: the image is loaded and, if its dimensions
\* are positive, stored in image_size_cache.
W_PreviewProbe ==
    /\ wpc = "probe"
    /\ \E valid \in BOOLEAN :
         IF valid
           THEN /\ sizeCache' = sizeCache \cup {imgOf[action]}
                /\ cacheTouched' = cacheTouched \cup {"worker"}
           ELSE UNCHANGED <<sizeCache, cacheTouched>>
    /\ wpc' = "cmd"
    /\ UNCHANGED <<pending, running, closed, lock, action, outcome, clientVars,
                   histVars, argVars, loopVars, wallpaper, mediaVars, extVars>>

\* run_command on the worker: the external command sets the wallpaper or
\* fails; either way a BackendResult is returned and the action ends.
W_PreviewCommand ==
    /\ wpc = "cmd"
    /\ \E ok \in BOOLEAN :
         wallpaper' = IF ok THEN imgOf[action] ELSE wallpaper
    /\ outcome' = "ok"
    /\ finished' = finished \cup {action}
    /\ wpc' = "fin"
    /\ UNCHANGED <<pending, running, closed, lock, action, clientVars,
                   started, raised, replaced, pendAtCall, runAtCall,
                   clearedAtClose, nsubAtCall, argVars, loopVars, sizeCache,
                   cacheTouched, mediaVars, extVars>>

PickerNext ==
    \/ P_NavigatePress
    \/ P_NavigateRepeat
    \/ P_DwellPreview
    \/ P_Reload
    \/ P_ConfirmMode
    \/ P_ConfirmProbe
    \/ P_ConfirmApply
    \/ P_Cancel
    \/ P_Shutdown
    \/ P_Restore
    \/ SubmitAcquire
    \/ SubmitBody
    \/ CloseAcquire
    \/ CloseBody
    \/ Join
    \/ WorkerNext
    \/ W_PreviewMode
    \/ W_PreviewProbe
    \/ W_PreviewCommand

PickerSpec == PickerInit /\ [][PickerNext]_vars

(***************************************************************************)
(* ThumbnailStore (src/fay/media.py).  An image stands for its path; its   *)
(* cache key is the thumbnail path path_for gives it, one per image.  All  *)
(* calls are made by the render thread, one at a time.                     *)
(***************************************************************************)

Thumbs == 1..NumThumbs

\* path_for: the thumbnail file of an image, named by the digest of its
\* resolved path, size, mtime and the target box; distinct images get
\* distinct paths.
PathFor(img) == <<"thumb", img>>

\* Variant of RequestSt that does not look at pending_set.
RequestStNoPendingCheck(st, img) ==
    LET thumb == PathFor(img) IN
    IF thumb \notin st.failed /\ (thumb \in st.exists => img \notin st.dims)
      THEN [st EXCEPT !.pending = Append(@, <<img, thumb>>),
                      !.pending_set = @ \cup {thumb}]
      ELSE st

\* Variant of RequestSt that enqueues only for a missing thumbnail file.
RequestStMissingOnly(st, img) ==
    LET thumb == PathFor(img) IN
    IF thumb \notin st.exists /\ thumb \notin st.pending_set /\ thumb \notin st.failed
      THEN [st EXCEPT !.pending = Append(@, <<img, thumb>>),
                      !.pending_set = @ \cup {thumb}]
      ELSE st

\* request: the store after request(image_path).  With the thumbnail on
\* disk a job is enqueued when no dimensions are cached for the image;
\* without it a job is enqueued; in both cases only if the key is neither in
\* pending_set nor in failed.
RequestSt(st, img) ==
    LET thumb == PathFor(img) IN
    IF thumb \in st.exists
      THEN IF img \notin st.dims /\ thumb \notin st.pending_set /\ thumb \notin st.failed
             THEN [st EXCEPT !.pending = Append(@, <<img, thumb>>),
                             !.pending_set = @ \cup {thumb}]
             ELSE st
      ELSE IF thumb \notin st.pending_set /\ thumb \notin st.failed
             THEN [st EXCEPT !.pending = Append(@, <<img, thumb>>),
                             !.pending_set = @ \cup {thumb}]
             ELSE st

\* Variant of ProcessJob that pops the job and leaves its key in pending_set.
ProcessJobKeepsKey(st, out) ==
    LET img == Head(st.pending)[1]
        thumb == Head(st.pending)[2]
        st1 == [st EXCEPT !.pending = Tail(@)]
    IN  IF thumb \in st.exists
          THEN IF img \notin st.dims /\ out = "good"
                 THEN [st1 EXCEPT !.dims = @ \cup {img}]
                 ELSE st1
          ELSE IF out = "good"
                 THEN [st1 EXCEPT !.exists = @ \cup {thumb}, !.dims = @ \cup {img}]
                 ELSE [st1 EXCEPT !.failed = @ \cup {thumb}, !.exists = @ \ {thumb}]

\* Variant of ProcessJob in which a failed build stays at the front of the
\* queue.
ProcessJobKeepsFailedJob(st, out) ==
    LET img == Head(st.pending)[1]
        thumb == Head(st.pending)[2]
        st1 == [st EXCEPT !.pending = Tail(@), !.pending_set = @ \ {thumb}]
    IN  IF thumb \in st.exists
          THEN IF img \notin st.dims /\ out = "good"
                 THEN [st1 EXCEPT !.dims = @ \cup {img}]
                 ELSE st1
          ELSE IF out = "good"
                 THEN [st1 EXCEPT !.exists = @ \cup {thumb}, !.dims = @ \cup {img}]
                 ELSE [st EXCEPT !.failed = @ \cup {thumb}, !.exists = @ \ {thumb}]

\* One round of process's loop: the front job is popped and its key leaves
\* pending_set.  If the thumbnail is on disk only the dimensions are
\* refreshed (probed when none are cached).  Otherwise the thumbnail is
\* built: on success the file exists and the dimensions are remembered; on
\* failure (a False result or an exception, both caught) the key joins
\* failed and the file is unlinked.
ProcessJob(st, out) ==
    LET img == Head(st.pending)[1]
        thumb == Head(st.pending)[2]
        st1 == [st EXCEPT !.pending = Tail(@), !.pending_set = @ \ {thumb}]
    IN  IF thumb \in st.exists
          THEN IF img \notin st.dims /\ out = "good"
                 THEN [st1 EXCEPT !.dims = @ \cup {img}]
                 ELSE st1
          ELSE IF out = "good"
                 THEN [st1 EXCEPT !.exists = @ \cup {thumb}, !.dims = @ \cup {img}]
                 ELSE [st1 EXCEPT !.failed = @ \cup {thumb}, !.exists = @ \ {thumb}]

\* The result of the i-th job of a process call.
ResultOf(outs, i) == IF i \in DOMAIN outs THEN outs[i] ELSE "bad"

\* Variant of LoopGoesOn that ignores the budget.
LoopGoesOnNoBudget(st, jobsDone, maxJobs) ==
    st.pending # <<>>

\* `while self.pending and jobs_done < max_jobs`.
LoopGoesOn(st, jobsDone, maxJobs) ==
    st.pending # <<>> /\ jobsDone < maxJobs

\* process(max_jobs): the store after the loop; outs[i] is the decode/export
\* result of the i-th job.
RECURSIVE ProcessLoop(_, _, _, _)
ProcessLoop(st, jobsDone, maxJobs, outs) ==
    IF LoopGoesOn(st, jobsDone, maxJobs)
      THEN ProcessLoop(ProcessJob(st, ResultOf(outs, jobsDone + 1)), jobsDone + 1,
                       maxJobs, outs)
      ELSE st

\* The budgets process is called with; the frame loop uses
\* THUMB_BUILD_BUDGET_IDLE.
Budgets == {-1, 0, THUMB_BUILD_BUDGET_IDLE} \cup {MaxBudget}

(***************************************************************************)
(* TextureCache                                                            *)
(***************************************************************************)

Keys(c) == {c[i][1] : i \in DOMAIN c}
Handles(c) == {c[i][2] : i \in DOMAIN c}
HandleOf(c, key) == (CHOOSE i \in DOMAIN c : c[i][1] = key)
EntryOf(c, key) == c[HandleOf(c, key)]
Without(q, key) == SelectSeq(q, LAMBDA e : e # key)

\* Variant of MoveToEnd that leaves the order as it is.
MoveToEndNot(c, key) == c

\* OrderedDict.move_to_end(key).
MoveToEnd(c, key) ==
    Append(SelectSeq(c, LAMBDA e : e[1] # key), EntryOf(c, key))

\* Variant of Overfull that never evicts.
OverfullNever(c) == FALSE

\* `len(self.cache) > self.max_items`.
Overfull(c) == Len(c) > maxItems

\* Variant of Unload that does not release the handle.
UnloadNot(g, h) == g

\* rl.unload_texture(handle): the GPU resource is released; unloading a
\* handle that is not live is recorded.
Unload(g, h) == [live |-> g.live \ {h}, misfreed |-> g.misfreed \/ h \notin g.live]

\* The ids load_texture can return: one more than the largest cache holds.
HandleIds == 1..(MaxItems + 1)

\* rl.load_texture on success: an id that no live texture has (the least
\* one; past the ids the model provides, MaxItems + 2).
FreshHandle(g) ==
    IF HandleIds \ g.live = {}
      THEN MaxItems + 2
      ELSE CHOOSE h \in HandleIds \ g.live : \A x \in HandleIds \ g.live : h <= x

\* Variant of KnownFailed that forgets failures.
KnownFailedNever(key) == FALSE

\* `key in self.failed`.
KnownFailed(key) == key \in texFailed

\* Variant of FailedAfterClear that keeps the failed set.
FailedAfterClearKept == texFailed

\* `self.failed.clear()`.
FailedAfterClear == {}

\* Unload applied to every handle of a cache.
RECURSIVE UnloadAll(_, _)
UnloadAll(g, c) ==
    IF c = <<>> THEN g ELSE UnloadAll(Unload(g, Head(c)[2]), Tail(c))

\* A ThumbnailStore just built over a cache directory that holds the
\* thumbnails ex of earlier runs, with dimension sidecars for the images dm.
NewStore(ex, dm) ==
    [pending |-> <<>>, pending_set |-> {}, failed |-> {},
     exists |-> {PathFor(i) : i \in ex}, dims |-> dm]

\* A TextureCache just built.
NewCache ==
    /\ cache = <<>>
    /\ texFailed = {}
    /\ maxItems \in 1..MaxItems
    /\ gpu = NoTextures
    /\ useOrder = <<>>

\* The store over any cache directory: a thumbnail of an earlier run may
\* have lost its sidecar.
StoreInit ==
    /\ RunnerInit /\ ClientInit /\ HistInit /\ NoPicker
    /\ \E ex \in SUBSET Thumbs : \E dm \in SUBSET ex : store = NewStore(ex, dm)
    /\ NewCache
    /\ NoExt

\* The caches over a cache directory as earlier runs leave it: every
\* thumbnail on disk has its sidecar (remember_dimensions writes it with
\* every build).
MediaInit ==
    /\ RunnerInit /\ ClientInit /\ HistInit /\ NoPicker
    /\ \E ex \in SUBSET Thumbs : store = NewStore(ex, ex)
    /\ NewCache
    /\ NoExt

otherVars == <<runnerVars, clientVars, histVars, pickerVars, extVars>>

\* TextureCache.request(image_path), that is ThumbnailStore.request; the
\* thumbnail path it returns is PathFor(img).
Request(img) ==
    /\ store' = RequestSt(store, img)
    /\ UNCHANGED <<cache, texFailed, maxItems, gpu, useOrder, otherVars>>

\* ThumbnailStore.process(max_jobs); outs are the decode/export results of
\* the jobs it runs.
Process(n) ==
    \E outs \in [1..(IF n > 0 THEN n ELSE 0) -> {"good", "bad"}] :
        /\ store' = ProcessLoop(store, 0, n, outs)
        /\ UNCHANGED <<cache, texFailed, maxItems, gpu, useOrder, otherVars>>

\* TextureCache.get(image_path): what the call leaves and returns (got; 0
\* for None) when rl.load_texture, if it is called, succeeds (ok) or gives
\* texture id 0.
GetResult(img, ok) ==
    LET thumb == PathFor(img)
        st1 == RequestSt(store, img)
        same == [store |-> st1, cache |-> cache, gpu |-> gpu,
                 texFailed |-> texFailed, useOrder |-> useOrder, got |-> 0]
    IN
    IF thumb \in Keys(cache)
      THEN \* a hit: most recently used, the held handle is returned
           [same EXCEPT !.cache = MoveToEnd(cache, thumb),
                        !.useOrder = Append(Without(useOrder, thumb), thumb),
                        !.got = EntryOf(cache, thumb)[2]]
      ELSE IF KnownFailed(thumb) \/ thumb \notin st1.exists
        THEN \* known to fail, or not built yet: None
             same
        ELSE IF ~ok
          THEN \* rl.load_texture gave texture.id == 0
               [same EXCEPT !.texFailed = texFailed \cup {thumb}]
          ELSE LET h == FreshHandle(gpu)
                   full == Append(cache, <<thumb, h>>)
                   g == [gpu EXCEPT !.live = @ \cup {h}]
                   kept == IF Overfull(full) THEN Tail(full) ELSE full
               IN  [same EXCEPT
                      !.cache = kept,
                      !.gpu = IF Overfull(full) THEN Unload(g, Head(full)[2]) ELSE g,
                      !.useOrder = SelectSeq(Append(Without(useOrder, thumb), thumb),
                                             LAMBDA k : k \in Keys(kept)),
                      !.got = h]

Get(img) ==
    \E ok \in BOOLEAN : \E r \in {GetResult(img, ok)} :
        /\ r.got \in HandleIds \cup {0}
        /\ store' = r.store
        /\ cache' = r.cache
        /\ gpu' = r.gpu
        /\ texFailed' = r.texFailed
        /\ useOrder' = r.useOrder
        /\ UNCHANGED <<maxItems, otherVars>>

\* TextureCache.clear(): what the call leaves.
ClearResult ==
    [cache |-> <<>>, gpu |-> UnloadAll(gpu, cache), texFailed |-> FailedAfterClear,
     useOrder |-> <<>>]

\* Variant of Clear that also forgets the store's failed builds.
ClearForgettingBuilds ==
    /\ cache' = ClearResult.cache
    /\ gpu' = ClearResult.gpu
    /\ texFailed' = ClearResult.texFailed
    /\ useOrder' = ClearResult.useOrder
    /\ store' = [store EXCEPT !.failed = {}]
    /\ UNCHANGED <<maxItems, otherVars>>

\* TextureCache.clear(), also called by the picker's reload key.
Clear ==
    /\ cache' = ClearResult.cache
    /\ gpu' = ClearResult.gpu
    /\ texFailed' = ClearResult.texFailed
    /\ useOrder' = ClearResult.useOrder
    /\ UNCHANGED <<store, maxItems, otherVars>>

M_Request == \E img \in Thumbs : Request(img)

M_Process(budgets) == \E n \in budgets : Process(n)

M_Get == \E img \in Thumbs : Get(img)

M_Clear == Clear

\* The store alone: requests, and process under every budget.
StoreNext ==
    \/ M_Request
    \/ M_Process(Budgets)

StoreSpec == StoreInit /\ [][StoreNext]_vars

\* The texture cache over the store, as the frame loop drives them:
\* process runs with THUMB_BUILD_BUDGET_IDLE.
MediaNext ==
    \/ M_Request
    \/ M_Process({THUMB_BUILD_BUDGET_IDLE})
    \/ M_Get
    \/ M_Clear

MediaSpec == MediaInit /\ [][MediaNext]_vars

(***************************************************************************)
(* Properties of AsyncActionRunner                                         *)
(***************************************************************************)

\* The actions the worker has taken from the slot.
Taken == Range(started) \cup (IF wpc = "call" /\ action # 0 THEN {action} ELSE {})

\* C1: an action overwritten in the slot by a later submit is never taken or
\* executed by the worker, and what sits in the slot once submit has returned
\* is the last action submitted; every action submitted before one that ran
\* either ran itself or was overwritten.  So of several actions submitted
\* before the worker takes any, only the last one executes.
C1_Coalescing ==
    /\ \A i \in replaced : i \notin Taken
    /\ (pending # 0 /\ rpc \notin {"submit", "submit_cs"}) => pending = nsub
    /\ \A j \in Range(started) : \A k \in 1..(j - 1) :
         k \in Range(started) \/ k \in replaced

\* Three actions were submitted before the worker took any, and the one that
\* ran is the third.
C1_Witness ==
    /\ replaced = {1, 2}
    /\ started = <<3>>
    /\ 3 \in finished

\* C2: shutdown(flush_pending=true) marks the runner closed only when nothing
\* is pending and nothing is running, and when it has returned the last action
\* submitted before the call has run to completion.
C2_FlushWaits ==
    (flush /\ sd # "none") =>
        /\ closed => (pending = 0 /\ ~running)
        /\ (sd = "returned" /\ nsubAtCall > 0) => nsubAtCall \in finished
        /\ sd = "returned" => \A i \in 1..nsubAtCall : i \in finished \/ i \in replaced

\* A flushing shutdown that was called with an action pending and one running
\* has returned.
C2_Witness ==
    /\ flush
    /\ sd = "returned"
    /\ pendAtCall # 0
    /\ runAtCall # 0

\* C3 as stated: after shutdown(flush_pending=false) the action that was in
\* flight and the action that was pending when shutdown was called have both
\* been executed to completion by the time the worker terminates.
C3_PendingStillRuns ==
    (~flush /\ sd # "none" /\ wpc = "done") =>
        /\ runAtCall # 0 => runAtCall \in finished
        /\ pendAtCall # 0 => pendAtCall \in finished

\* C3 amended: after shutdown(flush_pending=false) every action the worker has
\* taken, the one in flight at the call included, has completed when the worker
\* terminates; the action still in the slot when shutdown marks the runner
\* closed is discarded and never executed; an action pending at the call runs
\* only if the worker took it before the close.
C3_TakenRunsPendingDropped ==
    (~flush /\ sd # "none") =>
        /\ wpc = "done" => Range(started) \subseteq finished
        /\ (wpc = "done" /\ runAtCall # 0) => runAtCall \in finished
        /\ clearedAtClose # 0 => clearedAtClose \notin Taken
        /\ (wpc = "done" /\ pendAtCall # 0) =>
               (pendAtCall \in finished \/ pendAtCall = clearedAtClose)

\* A non-flushing shutdown was called with one action in flight and another
\* pending; the worker has terminated, the first completed, the second was
\* discarded.
C3_Witness ==
    /\ ~flush
    /\ wpc = "done"
    /\ runAtCall # 0
    /\ runAtCall \in finished
    /\ clearedAtClose # 0
    /\ clearedAtClose = pendAtCall

\* C4: at most one action is executing at any time, no action runs twice, and
\* the actions run in the order they were submitted.
C4_OneInFlightInOrder ==
    /\ \A i \in DOMAIN started : \A j \in DOMAIN started :
         (i < j) => started[i] < started[j]
    /\ Cardinality(Range(started) \ finished) <= 1
    /\ (Range(started) \ finished # {}) => (running /\ wpc = "inaction")

\* Two actions have run, with a submitted one between them dropped.
C4_Witness ==
    /\ started = <<1, 3>>
    /\ finished = {1, 3}

\* C5: while shutdown has not been called, the last action submitted is
\* eventually executed to completion.
C5_LastRuns ==
    \A i \in 1..MaxSubmits :
        (nsub = i /\ rpc = "idle" /\ sd = "none")
            ~> (i \in finished \/ nsub > i \/ sd # "none")

\* The last of several submitted actions has completed, the runner still open.
C5_Witness ==
    /\ sd = "none"
    /\ nsub >= 2
    /\ rpc = "idle"
    /\ nsub \in finished
    /\ replaced # {}

\* C6: once the runner is closed the slot stays empty, and an action submitted
\* after shutdown has returned is never stored, taken or executed.
C6_DroppedAfterClose ==
    /\ closed => pending = 0
    /\ sd = "returned" =>
         \A i \in (nsubAtCall + 1)..nsub : i \notin Taken /\ pending # i

\* A submit call made after shutdown returned has itself returned.
C6_Witness ==
    /\ sd = "returned"
    /\ nsub > nsubAtCall
    /\ rpc = "idle"

\* C7: an action that raises does not end the worker: the worker ends only
\* through shutdown, the finally block clears running, and an action in the
\* slot after a failure is still taken (unless replaced or discarded by
\* shutdown).
C7_FailureSwallowed ==
    /\ [](wpc = "done" => closed)
    /\ (wpc = "fin" /\ outcome = "raise") ~> (wpc = "top" /\ ~running)
    /\ \A j \in 1..MaxSubmits :
         (raised # {} /\ pending = j)
             ~> (j \in Range(started) \/ j \in replaced \/ clearedAtClose = j)

\* An action raised and a later action has run to completion.
C7_Witness ==
    \E i \in DOMAIN started : \E j \in DOMAIN started :
        /\ i < j
        /\ started[i] \in raised
        /\ started[j] \in finished

\* C8: the worker does not hold the lock while it executes an action, so a
\* submit call in progress can take the lock and complete.
C8_SubmitNotBlocked ==
    wpc \in {"call", "inaction"} =>
        /\ lock # "worker"
        /\ rpc = "submit" => ENABLED SubmitAcquire
        /\ rpc = "submit_cs" => ENABLED SubmitBody

\* A submit call stored its action and returned while the worker was
\* executing another.
C8_Witness ==
    /\ wpc = "inaction"
    /\ pending # 0
    /\ rpc = "idle"

(***************************************************************************)
(* Properties of run_picker                                                *)
(***************************************************************************)

\* C9: while the frame loop runs, the render thread never executes a backend
\* apply/preview itself; every such call is executed by the worker.
C9_RenderNeverRunsBackend ==
    rpc # "applying"

\* C10: no action executed by the worker reads or writes the ApplyContext
\* image-size cache.
C10_WorkerNeverTouchesSizeCache ==
    "worker" \notin cacheTouched

(***************************************************************************)
(* Properties of ThumbnailStore.  A property of request or process is      *)
(* stated of the store the call leaves, RequestSt(store, img) or           *)
(* ProcessLoop(store, 0, n, outs), in every reachable state.               *)
(***************************************************************************)

\* How many jobs of a queue are for a key.
JobsFor(q, key) == Cardinality({i \in DOMAIN q : q[i][2] = key})

\* The results a process call can meet in its jobs.
Results == [1..MaxBudget -> {"good", "bad"}]

\* C11: a thumbnail key is in the pending queue at most once (and pending_set
\* is exactly the set of queued keys); a request for a key that can be built
\* leaves exactly one job for it, however often it is repeated; a request
\* for a key that is pending or failed changes nothing.
C11_KeyQueuedAtMostOnce ==
    /\ \A i \in Thumbs : JobsFor(store.pending, PathFor(i)) <= 1
    /\ store.pending_set = {store.pending[k][2] : k \in DOMAIN store.pending}
    /\ \A img \in Thumbs :
         LET once == RequestSt(store, img)
             twice == RequestSt(once, img)
         IN  /\ (PathFor(img) \notin store.failed /\ PathFor(img) \notin store.exists)
                  => JobsFor(once.pending, PathFor(img)) = 1
             /\ twice = once
             /\ (PathFor(img) \in store.pending_set \cup store.failed)
                  => once = store

\* Two keys are queued and a third has failed: each can be requested again.
C11_Witness ==
    /\ Len(store.pending) >= 2
    /\ store.failed # {}

\* In a step, the job queued for an image was run by process.
JobRan(img) ==
    /\ PathFor(img) \in store.pending_set
    /\ PathFor(img) \notin store'.pending_set

\* In a step, the job queued for an image was run and failed: the build
\* recorded the key as failed, or the job left the image's dimensions unknown
\* (the probe of the source image returned nothing).
JobFailed(img) ==
    /\ JobRan(img)
    /\ PathFor(img) \in store'.failed \/ img \notin store'.dims

\* C12: after the job of a key failed during process, no request enqueues the
\* key again: a failed key is never pending, and a request made after a
\* failed job leaves the store as it is.
C12_FailedJobNeverRetried ==
    /\ [](store.failed \cap store.pending_set = {})
    /\ [][\A img \in Thumbs :
            JobFailed(img) => RequestSt(store', img) = store']_vars

\* Whether request is to enqueue a job for an image: the key is neither
\* queued nor failed, and the thumbnail is not on disk or is on disk with no
\* dimensions cached for the image.
Wanted(img) ==
    /\ PathFor(img) \notin store.pending_set
    /\ PathFor(img) \notin store.failed
    /\ PathFor(img) \notin store.exists \/ img \notin store.dims

\* C13, as stated: request enqueues a job exactly when the thumbnail file
\* does not exist and the key is neither queued nor failed.
C13_EnqueuesOnlyIfMissing ==
    \A img \in Thumbs :
        RequestSt(store, img) # store <=>
            /\ PathFor(img) \notin store.exists
            /\ PathFor(img) \notin store.pending_set
            /\ PathFor(img) \notin store.failed

\* C13, amended: request enqueues a job exactly when the key is neither
\* queued nor failed and either the thumbnail file does not exist or it
\* exists with no dimensions cached for the image; the job goes to the back
\* of the queue and nothing else changes.
C13_EnqueuesIfMissingOrNoDims ==
    \A img \in Thumbs :
        LET st == RequestSt(store, img) IN
        /\ Wanted(img) => /\ st.pending = Append(store.pending, <<img, PathFor(img)>>)
                          /\ st.pending_set = store.pending_set \cup {PathFor(img)}
        /\ ~Wanted(img) => st = store
        /\ st.failed = store.failed
        /\ st.exists = store.exists
        /\ st.dims = store.dims

\* A job is queued for a thumbnail that is on disk, another for one that is
\* not.
C13_Witness ==
    /\ \E i \in DOMAIN store.pending : store.pending[i][2] \in store.exists
    /\ \E i \in DOMAIN store.pending : store.pending[i][2] \notin store.exists

\* The jobs a process call with budget n is to run.
Quota(n) ==
    LET m == IF n > 0 THEN n ELSE 0
    IN  IF m < Len(store.pending) THEN m ELSE Len(store.pending)

\* C14: process(max_jobs) removes at most max_jobs jobs (none when max_jobs
\* <= 0), from the front of the queue and in queue order, which is the order
\* of enqueueing; the frame loop's budget THUMB_BUILD_BUDGET_IDLE is 1.
C14_AtMostMaxJobsFromFront ==
    /\ THUMB_BUILD_BUDGET_IDLE = 1
    /\ \A n \in Budgets : \A outs \in Results :
         LET st == ProcessLoop(store, 0, n, outs) IN
         /\ Len(store.pending) - Len(st.pending) = Quota(n)
         /\ Quota(n) <= (IF n > 0 THEN n ELSE 0)
         /\ st.pending = SubSeq(store.pending, Quota(n) + 1, Len(store.pending))
         /\ st.pending_set = {st.pending[k][2] : k \in DOMAIN st.pending}
         /\ n <= 0 => st = store

\* Jobs were run and more jobs than the frame loop's budget are queued.
C14_Witness ==
    /\ Len(store.pending) > THUMB_BUILD_BUDGET_IDLE
    /\ store.failed # {} \/ \E i \in Thumbs : PathFor(i) \in store.exists /\ i \in store.dims

KeySeq(c) == [i \in DOMAIN c |-> c[i][1]]

\* C16: after every call the cache holds at most max_items handles.
C16_AtMostMaxItems ==
    /\ Len(cache) <= maxItems
    /\ Cardinality(Handles(cache)) = Len(cache)
    /\ Cardinality(Keys(cache)) = Len(cache)

\* The cache is full after an insertion that evicted: it holds the handle id
\* that is only used while max_items others are live.
C16_Witness ==
    /\ Len(cache) = maxItems
    /\ (maxItems + 1) \in Handles(cache)

\* C17: eviction is strict LRU.  The cache's order is the order of the last
\* get of each held key (useOrder); an insertion into a full cache evicts
\* exactly the key whose last get is oldest, an insertion into a cache that
\* is not full evicts nothing; a hit makes the key most recently used,
\* returns the handle held for it, and changes neither the size nor the held
\* keys nor their handles.
C17_StrictLRU ==
    /\ KeySeq(cache) = useOrder
    /\ \A img \in Thumbs : \A r \in {GetResult(img, TRUE)} :
         LET thumb == PathFor(img) IN
         /\ thumb \in Keys(cache) =>
              /\ Keys(r.cache) = Keys(cache)
              /\ Len(r.cache) = Len(cache)
              /\ r.cache[Len(r.cache)] = EntryOf(cache, thumb)
              /\ r.got = EntryOf(cache, thumb)[2]
              /\ \A k \in Keys(cache) : EntryOf(r.cache, k) = EntryOf(cache, k)
              /\ KeySeq(r.cache) = Append(Without(useOrder, thumb), thumb)
         /\ (thumb \notin Keys(cache) /\ r.got # 0) =>
              /\ r.cache[Len(r.cache)] = <<thumb, r.got>>
              /\ IF Len(cache) < maxItems
                   THEN Keys(r.cache) = Keys(cache) \cup {thumb}
                   ELSE /\ Keys(r.cache) = (Keys(cache) \ {useOrder[1]}) \cup {thumb}
                        /\ Len(r.cache) = maxItems

\* A full cache of at least two keys after an eviction, in which the handle
\* loaded first is still held and is the least recently used.
C17_Witness ==
    /\ maxItems >= 2
    /\ Len(cache) = maxItems
    /\ (maxItems + 1) \in Handles(cache)
    /\ cache[1][2] = 1

\* C18: every handle the cache creates is released exactly once: the live
\* textures are exactly the handles the cache holds, so a handle is released
\* when it leaves the cache (eviction or clear) and not before; no handle
\* that is not live is ever unloaded; after clear no texture is live.
C18_ReleasedExactlyOnce ==
    /\ gpu.live = Handles(cache)
    /\ ~gpu.misfreed
    /\ ClearResult.gpu.live = {}
    /\ ~ClearResult.gpu.misfreed
    /\ \A img \in Thumbs : \A ok \in BOOLEAN : \A r \in {GetResult(img, ok)} :
         /\ r.gpu.live = Handles(r.cache)
         /\ ~r.gpu.misfreed

\* A handle was released while another, loaded later, is live.
C18_Witness ==
    \E h \in HandleIds : \E g \in gpu.live : h \notin gpu.live /\ h < g

\* C19: get uploads a texture only when the key is not held, is not known
\* failed and the thumbnail file exists.  A held key is served without an
\* upload; a known-failed key returns none and nothing is loaded; a thumbnail
\* that is not built yet returns none and is not marked failed; a thumbnail
\* that is built, not held and not known failed is uploaded by get when the
\* load succeeds.
C19_UploadOnlyWhenNeeded ==
    \A img \in Thumbs : \A ok \in BOOLEAN : \A r \in {GetResult(img, ok)} :
        LET thumb == PathFor(img)
            loadable == /\ thumb \notin Keys(cache)
                        /\ thumb \notin texFailed
                        /\ thumb \in store.exists
        IN
        /\ (r.gpu.live # gpu.live \/ r.texFailed # texFailed \/ r.cache # cache) =>
             \/ thumb \in Keys(cache) /\ r.gpu = gpu /\ r.texFailed = texFailed
             \/ loadable
        /\ thumb \in Keys(cache) => r.got \in gpu.live
        /\ (thumb \notin Keys(cache) /\ ~loadable) =>
             /\ r.got = 0
             /\ r.cache = cache
             /\ r.gpu = gpu
             /\ r.texFailed = texFailed
        /\ (loadable /\ ok) => (r.got # 0 /\ r.got \notin gpu.live /\ thumb \in Keys(r.cache))
        /\ (loadable /\ ~ok) => (r.got = 0 /\ r.texFailed = texFailed \cup {thumb})

\* A texture is held, a load has failed, and a thumbnail is queued that is
\* not built yet.
C19_Witness ==
    /\ cache # <<>>
    /\ texFailed # {}
    /\ \E i \in DOMAIN store.pending : store.pending[i][2] \notin store.exists

\* C20: clear releases every held handle and leaves the cache and the
\* known-failed set empty; it can be called in every state.
C20_ClearReleasesAll ==
    /\ ENABLED Clear
    /\ ClearResult.cache = <<>>
    /\ ClearResult.texFailed = {}
    /\ ClearResult.gpu.live = gpu.live \ Handles(cache)
    /\ ClearResult.gpu.live = {}
    /\ ClearResult.gpu.misfreed = gpu.misfreed

\* A full cache and a non-empty known-failed set, for clear to reset.
C20_Witness ==
    /\ Len(cache) = maxItems
    /\ texFailed # {}

(***************************************************************************)
(* EnvironmentInfo (src/fay/models.py, src/fay/env.py)                     *)
(***************************************************************************)

\* The commands detect_environment looks for on PATH.
KNOWN_COMMANDS == {"feh", "gsettings", "swaybg", "swaymsg", "swww", "awww",
                   "swww-daemon", "hyprctl"}

\* XDG_SESSION_TYPE, stripped and lowercased.
SessionTypes == {"", "x11", "wayland"}

\* f"{current_desktop}:{desktop_session}".lower() of some sessions.
Desktops == {":", "gnome:gnome", "ubuntu:gnome:ubuntu", "kde:plasma"}

\* The desktops whose string contains "gnome" or "ubuntu".
GnomeDesktops == {"gnome:gnome", "ubuntu:gnome:ubuntu"}

\* The commands an is_available asks for, and the swaybg binary, which
\* none asks for.
ProbedCommands == KNOWN_COMMANDS \ {"swww-daemon"}

\* Every environment detect_environment can report. wayland_display and
\* x_display are TRUE when the variable is set to a non-empty string.
Envs == [session_type : SessionTypes, desktop : Desktops,
         wayland_display : BOOLEAN, x_display : BOOLEAN,
         hyprland : BOOLEAN, sway : BOOLEAN,
         commands : SUBSET ProbedCommands]

is_wayland(e) == e.session_type = "wayland" \/ e.wayland_display

is_x11(e) == e.session_type = "x11" \/ e.x_display

has_command(e, name) == name \in e.commands

is_gnome_session(e) == e.desktop \in GnomeDesktops

(***************************************************************************)
(* The backends' is_available                                              *)
(***************************************************************************)

is_available(b, e) ==
    CASE b = "gnome" -> has_command(e, "gsettings") /\ is_gnome_session(e)
      [] b = "swww" -> is_wayland(e) /\ has_command(e, "swww")
      [] b = "awww" -> is_wayland(e) /\ has_command(e, "awww")
      [] b = "hyprpaper" -> e.hyprland /\ has_command(e, "hyprctl")
      [] b = "swaybg" -> e.sway /\ has_command(e, "swaymsg")
      [] b = "feh" -> has_command(e, "feh") /\ is_x11(e)

(***************************************************************************)
(* BackendRegistry                                                         *)
(***************************************************************************)

\* self.backends, in registration order.
backends == <<"gnome", "swww", "awww", "hyprpaper", "swaybg", "feh">>

\* self.by_id.get(id): "none" is None.
by_id(id) == IF id \in Range(backends) THEN id ELSE "none"

\* A get that hands out awww under the name swww.
registry_get_alias(id) == IF id = "swww" THEN by_id("awww") ELSE by_id(id)

registry_get(id) ==
    IF id = "swww"
    THEN IF by_id("swww") # "none" THEN by_id("swww") ELSE by_id("awww")
    ELSE by_id(id)

\* An available that finds nothing.
available_none(e) == SelectSeq(backends, LAMBDA b : FALSE)

available(e) == SelectSeq(backends, LAMBDA b : is_available(b, e))

\* The first of the candidate ids that is registered and available, "none"
\* if there is none: the loop of one priority step.
RECURSIVE first_candidate(_, _)
first_candidate(ids, e) ==
    IF ids = <<>> THEN "none"
    ELSE IF by_id(Head(ids)) # "none" /\ is_available(by_id(Head(ids)), e)
         THEN by_id(Head(ids))
         ELSE first_candidate(Tail(ids), e)

\* An auto resolution that looks at availability alone.
resolve_auto_unsignaled(e) ==
    IF available(e) # <<>>
    THEN [backend |-> Head(available(e)), reason |-> "first available"]
    ELSE [backend |-> "none", reason |-> "no supported backend"]

resolve_auto(e) ==
    IF is_gnome_session(e) /\ first_candidate(<<"gnome">>, e) # "none"
    THEN [backend |-> first_candidate(<<"gnome">>, e), reason |-> "gnome"]
    ELSE IF e.hyprland
            /\ first_candidate(<<"swww", "awww", "hyprpaper">>, e) # "none"
    THEN [backend |-> first_candidate(<<"swww", "awww", "hyprpaper">>, e),
          reason |-> "hyprland"]
    ELSE IF e.sway /\ first_candidate(<<"swaybg">>, e) # "none"
    THEN [backend |-> first_candidate(<<"swaybg">>, e), reason |-> "sway"]
    ELSE IF is_x11(e) /\ first_candidate(<<"feh">>, e) # "none"
    THEN [backend |-> first_candidate(<<"feh">>, e), reason |-> "x11"]
    ELSE IF available(e) # <<>>
    THEN [backend |-> Head(available(e)), reason |-> "first available"]
    ELSE [backend |-> "none", reason |-> "no supported backend"]

resolve(e, id) ==
    IF id # "auto"
    THEN IF registry_get(id) = "none"
         THEN [backend |-> "none", reason |-> "unknown"]
         ELSE IF ~is_available(registry_get(id), e)
         THEN [backend |-> "none", reason |-> "unavailable"]
         ELSE [backend |-> registry_get(id), reason |-> "selected"]
    ELSE resolve_auto(e)

\* The ids a caller asks for: auto, the registered ones, and ids no backend
\* has.
BackendIds == {"auto"} \cup Range(backends) \cup {"", "xwallpaper"}

\* A registry over any environment, nothing resolved yet.
RegistryInit ==
    /\ RunnerInit /\ ClientInit /\ HistInit /\ NoPicker /\ NoMedia
    /\ NoModes /\ NoBackend /\ NoLoad /\ NoTail
    /\ env \in Envs
    /\ reqId = "auto"
    /\ choice = NoChoice

\* registry.resolve(env, id)
Resolve(id) ==
    /\ reqId' = id
    /\ choice' = resolve(env, id)
    /\ UNCHANGED <<env, runnerVars, clientVars, histVars, pickerVars, mediaVars,
                   modeVars, backendVars, loadVars, tailVars>>

RegistryNext == \E id \in BackendIds : Resolve(id)

RegistrySpec == RegistryInit /\ [][RegistryNext]_vars

(***************************************************************************)
(* Backend resolution                                                      *)
(***************************************************************************)

\* The ids of the registered backends.
Registered == {"gnome", "swww", "awww", "hyprpaper", "swaybg", "feh"}

\* C21: resolve with an explicit id returns exactly the registered backend
\* of that id when it is available; it returns no backend with the
\* "unknown" reason when no backend has the id, whatever the environment,
\* and no backend with the "unavailable" reason when the backend's
\* is_available is false. It never returns a backend of another id.
C21_ExplicitIdIsExact ==
    \A id \in BackendIds \ {"auto"} : \A c \in {resolve(env, id)} :
        /\ id \notin Registered =>
               c.backend = "none" /\ c.reason = "unknown"
        /\ id \in Registered /\ ~is_available(id, env) =>
               c.backend = "none" /\ c.reason = "unavailable"
        /\ id \in Registered /\ is_available(id, env) =>
               c.backend = id /\ c.reason = "selected"
        /\ c.backend \in {"none", id}

\* swww was asked for where only awww is available, and nothing was chosen.
C21_Witness ==
    /\ reqId = "swww"
    /\ choice = [backend |-> "none", reason |-> "unavailable"]
    /\ is_available("awww", env)
    /\ ~is_available("swww", env)

\* C22: resolve(env, "auto") returns no backend, with the "no supported
\* backend" reason, exactly when no registered backend is available in env,
\* and so whenever none of the commands the backends need is present; a
\* backend it returns is available in env.
C22_AutoNoneIffNothingAvailable ==
    \A c \in {resolve(env, "auto")} :
        /\ c.backend = "none" <=> (\A b \in Registered : ~is_available(b, env))
        /\ c.backend = "none" => c.reason = "no supported backend"
        /\ c.backend # "none" =>
               c.backend \in Registered /\ is_available(c.backend, env)
               /\ c.reason # "no supported backend"
        /\ env.commands \cap {"feh", "gsettings", "swaymsg", "swww", "awww",
                              "hyprctl"} = {} => c.backend = "none"

\* Auto resolution found nothing although commands are installed.
C22_Witness ==
    /\ reqId = "auto"
    /\ choice = [backend |-> "none", reason |-> "no supported backend"]
    /\ {"feh", "swww", "gsettings"} \subseteq env.commands

\* The candidates the environment signals, in priority order.
Signaled(e) ==
    (IF is_gnome_session(e) THEN <<"gnome">> ELSE <<>>)
    \o (IF e.hyprland THEN <<"swww", "awww", "hyprpaper">> ELSE <<>>)
    \o (IF e.sway THEN <<"swaybg">> ELSE <<>>)
    \o (IF is_x11(e) THEN <<"feh">> ELSE <<>>)

\* The available ones of a sequence of ids, in its order.
AvailableOf(ids, e) == SelectSeq(ids, LAMBDA b : is_available(b, e))

\* C23: resolve(env, "auto") returns the first available backend in the
\* priority order gnome (GNOME session), swww, awww, hyprpaper (Hyprland),
\* swaybg (Sway), feh (X11); only when no signaled candidate is available
\* does it return the first available backend in registration order.
C23_SignalsBeforeRegistrationOrder ==
    \A c \in {resolve(env, "auto")} :
        /\ AvailableOf(Signaled(env), env) # <<>> =>
               c.backend = Head(AvailableOf(Signaled(env), env))
        /\ AvailableOf(Signaled(env), env) = <<>>
           /\ AvailableOf(backends, env) # <<>> =>
               /\ c.backend = Head(AvailableOf(backends, env))
               /\ c.reason = "first available"

\* Sway's swaybg was chosen although swww, registered earlier, is available.
C23_Witness ==
    /\ reqId = "auto"
    /\ choice.backend = "swaybg"
    /\ is_available("swww", env)

(***************************************************************************)
(* Python floats: IEEE 754 binary64, round to nearest, ties to even.       *)
(* A positive float is m * 2^(e - 52) with 2^52 <= m < 2^53; the mantissa  *)
(* m is the pair <<hi, lo>> of value hi * 2^27 + lo.                       *)
(***************************************************************************)

\* 2^27, 2^25, 2^26: the weight of a mantissa's high part, and the range
\* of the high part of a normalised mantissa.
W27 == 134217728
M25 == 33554432
M26 == 67108864

BigGe(a, b) == a[1] > b[1] \/ (a[1] = b[1] /\ a[2] >= b[2])

BigSub(a, b) ==
    IF a[2] >= b[2] THEN <<a[1] - b[1], a[2] - b[2]>>
    ELSE <<a[1] - b[1] - 1, a[2] + W27 - b[2]>>

BigDouble(a) ==
    IF 2 * a[2] >= W27 THEN <<2 * a[1] + 1, 2 * a[2] - W27>>
    ELSE <<2 * a[1], 2 * a[2]>>

BigInc(a) == IF a[2] + 1 = W27 THEN <<a[1] + 1, 0>> ELSE <<a[1], a[2] + 1>>

RECURSIVE Log2(_)
Log2(a) == IF a < 2 THEN 0 ELSE 1 + Log2(a \div 2)

RECURSIVE Pow2(_)
Pow2(n) == IF n = 0 THEN 1 ELSE 2 * Pow2(n - 1)

\* 0.0, and the ZeroDivisionError a division raises.
FZero == [k |-> "zero", m |-> <<0, 0>>, e |-> 0]
FRaise == [k |-> "raise", m |-> <<0, 0>>, e |-> 0]

\* The float of an int 0 <= a < 2^26: exact.
ToF(a) ==
    IF a = 0 THEN FZero
    ELSE [k |-> "num", m |-> <<a * Pow2(25 - Log2(a)), 0>>, e |-> Log2(a)]

\* One step of long division: the next quotient bit of rem / den.
BitStep(q, rem, den) ==
    IF BigGe(BigDouble(rem), den)
    THEN <<BigInc(BigDouble(q)), BigSub(BigDouble(rem), den)>>
    ELSE <<BigDouble(q), BigDouble(rem)>>

\* Long division: n more quotient bits of rem / den after the bits q.
RECURSIVE Bits(_, _, _, _)
Bits(q, rem, den, n) ==
    IF n = 0 THEN <<q, rem>>
    ELSE CHOOSE r \in {Bits(x[1], x[2], den, n - 1) :
                         x \in {BitStep(q, rem, den)}} : TRUE

\* Rounds the 53-bit quotient qr[1] with remainder qr[2] to nearest, ties
\* to even.
Round(qr, den, e) ==
    IF (BigDouble(qr[2]) # den /\ BigGe(BigDouble(qr[2]), den))
       \/ (BigDouble(qr[2]) = den /\ qr[1][2] % 2 = 1)
    THEN IF BigInc(qr[1]) = <<M26, 0>>
         THEN [k |-> "num", m |-> <<M25, 0>>, e |-> e + 1]
         ELSE [k |-> "num", m |-> BigInc(qr[1]), e |-> e]
    ELSE [k |-> "num", m |-> qr[1], e |-> e]

\* x / y of two non-negative floats.
FDiv(x, y) ==
    IF x.k = "raise" \/ y.k = "raise" \/ y.k = "zero" THEN FRaise
    ELSE IF x.k = "zero" THEN FZero
    ELSE IF BigGe(x.m, y.m)
         THEN Round(Bits(<<0, 1>>, BigSub(x.m, y.m), y.m, 52), y.m, x.e - y.e)
         ELSE Round(Bits(<<0, 1>>, BigSub(BigDouble(x.m), y.m), y.m, 52), y.m,
                    x.e - y.e - 1)

\* a / b of two non-negative ints: Python rounds the true quotient once.
TrueDiv(a, b) == FDiv(ToF(a), ToF(b))

\* x <= y of two non-negative floats.
FLe(x, y) ==
    IF x.k = "zero" THEN TRUE
    ELSE IF y.k = "zero" THEN FALSE
    ELSE x.e < y.e \/ (x.e = y.e /\ BigGe(y.m, x.m))

FMax(x, y) == IF FLe(x, y) THEN y ELSE x

(***************************************************************************)
(* resolve_auto_mode (src/fay/backends/base.py)                            *)
(***************************************************************************)

\* The float literals 1.75, 0.78, 0.8, 1.25 and 1.0.
AUTO_ASPECT_RATIO_FACTOR == TrueDiv(175, 100)
AUTO_SMALL_RATIO_FACTOR == TrueDiv(78, 100)
AUTO_SQUAREISH_MIN_RATIO == TrueDiv(8, 10)
AUTO_SQUAREISH_MAX_RATIO == TrueDiv(125, 100)
FOne == ToF(1)

\* A guard that lets a zero dimension through.
NonPositiveButZero(w, h) == w < 0 \/ h < 0

\* width <= 0 or height <= 0
NonPositive(w, h) == w <= 0 \/ h <= 0

\* ratio_factor >= AUTO_ASPECT_RATIO_FACTOR
StrongAspectMismatch(ratio_factor) == FLe(AUTO_ASPECT_RATIO_FACTOR, ratio_factor)

\* A squareish test every image passes.
SquareishAlways(image_ratio) == TRUE

\* AUTO_SQUAREISH_MIN_RATIO <= image_ratio <= AUTO_SQUAREISH_MAX_RATIO
Squareish(image_ratio) ==
    /\ FLe(AUTO_SQUAREISH_MIN_RATIO, image_ratio)
    /\ FLe(image_ratio, AUTO_SQUAREISH_MAX_RATIO)

\* The rules, given the ratios the function has computed.
ModeFor(width_ratio, height_ratio, screen_ratio, image_ratio, ratio_factor, mismatch) ==
    IF FRaise \in {width_ratio, height_ratio, screen_ratio, image_ratio,
                   ratio_factor}
    THEN "ZeroDivisionError"
    ELSE IF FLe(width_ratio, AUTO_SMALL_RATIO_FACTOR)
            /\ FLe(height_ratio, AUTO_SMALL_RATIO_FACTOR)
    THEN "center"
    ELSE IF /\ Squareish(image_ratio)
            /\ FLe(FOne, width_ratio) /\ FLe(FOne, height_ratio)
    THEN "fit"
    ELSE IF mismatch \/ StrongAspectMismatch(ratio_factor)
    THEN "center"
    ELSE "fill"

\* max(screen_ratio / image_ratio, image_ratio / screen_ratio)
RatioFactor(screen_ratio, image_ratio) ==
    FMax(FDiv(screen_ratio, image_ratio), FDiv(image_ratio, screen_ratio))

Ratios(iw, ih, sw, sh, screen_ratio, image_ratio) ==
    ModeFor(TrueDiv(iw, sw), TrueDiv(ih, sh), screen_ratio, image_ratio,
            RatioFactor(screen_ratio, image_ratio),
            (sw >= sh) # (iw >= ih))

resolve_auto_mode(image_size, screen_width, screen_height) ==
    IF ~image_size.known THEN "fill"
    ELSE IF NonPositive(image_size.w, image_size.h) THEN "fill"
    ELSE IF NonPositive(screen_width, screen_height) THEN "fill"
    ELSE Ratios(image_size.w, image_size.h, screen_width, screen_height,
                TrueDiv(screen_width, screen_height),
                TrueDiv(image_size.w, image_size.h))

\* Largest of the small dimensions tried.
MaxDim == 10

\* Dimensions of the sizes at the rules' thresholds and of real screens.
TestDims == {39, 50, 80, 100, 400, 1080, 1120, 1920, 2160, 3840}

ImageDims == (-1 .. MaxDim) \cup TestDims

\* Screens: real monitors, small ones next to the small image dimensions,
\* and the sizes a failed monitor query leaves (app.py passes 0, 0 on
\* restore).
Screens == {<<1920, 1080>>, <<1280, 800>>, <<50, 50>>, <<7, 10>>, <<10, 7>>,
            <<10, 10>>, <<0, 0>>, <<0, 1080>>, <<1920, 0>>, <<-1, 1080>>}

\* None, or any pair of image dimensions.
ImageSizes ==
    {[known |-> FALSE, w |-> 0, h |-> 0]}
    \cup [known : {TRUE}, w : ImageDims, h : ImageDims]

ModeInit ==
    /\ RunnerInit /\ ClientInit /\ HistInit /\ NoPicker /\ NoMedia /\ NoRegistry
    /\ NoBackend /\ NoLoad /\ NoTail
    /\ imageSize \in ImageSizes
    /\ screen \in Screens
    /\ modeOut = "none"

\* resolve_auto_mode(image_size, screen_width, screen_height)
ResolveMode ==
    /\ modeOut = "none"
    /\ modeOut' = resolve_auto_mode(imageSize, screen[1], screen[2])
    /\ UNCHANGED <<imageSize, screen, runnerVars, clientVars, histVars,
                   pickerVars, mediaVars, registryVars, backendVars, loadVars,
                   tailVars>>

ModeNext == ResolveMode

ModeSpec == ModeInit /\ [][ModeNext]_vars

(***************************************************************************)
(* Auto mode resolution                                                    *)
(***************************************************************************)

\* The call's arguments are all positive.
PositiveDims ==
    /\ imageSize.known /\ imageSize.w > 0 /\ imageSize.h > 0
    /\ screen[1] > 0 /\ screen[2] > 0

\* C24: resolve_auto_mode is total: for every image size, None and
\* non-positive dimensions included, and every screen size, non-positive
\* included, it returns one of fill, fit, center, and fill when a dimension
\* is missing or not positive; it never returns auto or tile and never
\* fails with a division by zero.
C24_ModeResolutionTotal ==
    modeOut # "none" =>
        /\ modeOut \in {"fill", "fit", "center"}
        /\ ~PositiveDims => modeOut = "fill"

\* A known image was resolved for a screen whose size is zero.
C24_Witness ==
    /\ modeOut = "fill"
    /\ imageSize.known /\ imageSize.w > 0 /\ imageSize.h > 0
    /\ screen = <<0, 0>>

\* The rules of the mode resolution over exact ratios: iw/sw and ih/sh at
\* most 0.78; iw/ih within [0.8, 1.25] and both ratios at least 1; the
\* orientations differ or the larger of (sw/sh)/(iw/ih) and its inverse is
\* at least 1.75.
RuleMode(iw, ih, sw, sh) ==
    IF 100 * iw <= 78 * sw /\ 100 * ih <= 78 * sh THEN "center"
    ELSE IF /\ 4 * ih <= 5 * iw /\ 4 * iw <= 5 * ih
            /\ iw >= sw /\ ih >= sh
    THEN "fit"
    ELSE IF \/ (sw >= sh) # (iw >= ih)
            \/ 4 * sw * ih >= 7 * sh * iw
            \/ 4 * sh * iw >= 7 * sw * ih
    THEN "center"
    ELSE "fill"

\* C25: for positive image and screen dimensions resolve_auto_mode returns
\* the result of the first matching rule: both ratios <= 0.78 gives center;
\* image aspect within [0.8, 1.25] and both ratios >= 1.0 gives fit;
\* orientations differ or the aspect-ratio factor is >= 1.75 gives center;
\* otherwise fill.
C25_FirstMatchingRule ==
    modeOut # "none" /\ PositiveDims =>
        modeOut = RuleMode(imageSize.w, imageSize.h, screen[1], screen[2])

\* C26 as stated: on a 1920x1080 screen an image of 3840x2160 resolves to
\* fit.
C26_UhdOnFullHdIsFit ==
    /\ modeOut # "none"
    /\ imageSize = [known |-> TRUE, w |-> 3840, h |-> 2160]
    /\ screen = <<1920, 1080>>
    => modeOut = "fit"

\* C26: on a 1920x1080 screen an image of 3840x2160 resolves to fill: its
\* aspect 16:9 is outside [0.8, 1.25], and it is neither small, nor of the
\* other orientation, nor of a far aspect.
C26_UhdOnFullHdIsFill ==
    /\ modeOut # "none"
    /\ imageSize = [known |-> TRUE, w |-> 3840, h |-> 2160]
    /\ screen = <<1920, 1080>>
    => modeOut = "fill"

\* The 3840x2160 image was resolved for the 1920x1080 screen.
C26_Witness ==
    /\ modeOut = "fill"
    /\ imageSize = [known |-> TRUE, w |-> 3840, h |-> 2160]
    /\ screen = <<1920, 1080>>

(***************************************************************************)
(* The backends' commands (src/fay/backends/)                              *)
(***************************************************************************)

\* The images of the directory, and one that a saved state names but that
\* was deleted since.
UHD == "/w/uhd.png"
SMALL == "/w/small.png"
GONE == "/w/gone.png"
Files == {UHD, SMALL}

\* probe_image_size: the size raylib reports, None for a file it cannot
\* load.
SizeOf(image_path) ==
    CASE image_path = UHD -> [known |-> TRUE, w |-> 3840, h |-> 2160]
      [] image_path = SMALL -> [known |-> TRUE, w |-> 100, h |-> 80]
      [] OTHER -> [known |-> FALSE, w |-> 0, h |-> 0]

\* resolve_auto_mode of each image on the 1920x1080 monitor of the
\* ApplyContext.
AutoModes ==
    [image_path \in Files \cup {GONE} |->
        resolve_auto_mode(SizeOf(image_path), 1920, 1080)]

effective_mode(requested_mode, image_path) ==
    IF requested_mode # "auto" THEN requested_mode ELSE AutoModes[image_path]

\* f"--{FEH_MODE_MAP.get(resolved, 'bg-fill')}"
FehModeArg(resolved) ==
    CASE resolved = "fill" -> "--bg-fill"
      [] resolved = "fit" -> "--bg-max"
      [] resolved = "center" -> "--bg-center"
      [] resolved = "tile" -> "--bg-tile"
      [] OTHER -> "--bg-fill"

\* GNOME_MODE_MAP.get(resolved, "zoom")
GnomeMode(resolved) ==
    CASE resolved = "fill" -> "zoom"
      [] resolved = "fit" -> "scaled"
      [] resolved = "center" -> "centered"
      [] resolved = "tile" -> "wallpaper"
      [] OTHER -> "zoom"

\* SWAYBG_MODE_MAP.get(resolved, "fill")
SwayMode(resolved) ==
    IF resolved \in {"fill", "fit", "center", "tile"} THEN resolved ELSE "fill"

\* SWWW_MODE_MAP.get(resolved, "crop")
SwwwMode(resolved) ==
    CASE resolved = "fill" -> "crop"
      [] resolved = "fit" -> "fit"
      [] resolved \in {"center", "tile"} -> "no"
      [] OTHER -> "crop"

\* image_path.resolve().as_uri()
AsUri(image_path) ==
    CASE image_path = UHD -> "file:///w/uhd.png"
      [] image_path = SMALL -> "file:///w/small.png"
      [] OTHER -> "file:///w/gone.png"

\* f",{image_path}"
AllMonitors(image_path) ==
    CASE image_path = UHD -> ",/w/uhd.png"
      [] image_path = SMALL -> ",/w/small.png"
      [] OTHER -> ",/w/gone.png"

FehCommand(image_path, mode, persist_now) ==
    <<"feh">> \o (IF ~persist_now THEN <<"--no-fehbg">> ELSE <<>>)
    \o <<FehModeArg(effective_mode(mode, image_path)), image_path>>

GnomeSet(key, value) ==
    <<"gsettings", "set", "org.gnome.desktop.background", key, value>>

GnomeCommands(image_path, mode) ==
    <<GnomeSet("picture-options", GnomeMode(effective_mode(mode, image_path))),
      GnomeSet("picture-uri", AsUri(image_path)),
      GnomeSet("picture-uri-dark", AsUri(image_path))>>

HyprpaperCommands(image_path) ==
    <<<<"hyprctl", "hyprpaper", "preload", image_path>>,
      <<"hyprctl", "hyprpaper", "wallpaper", AllMonitors(image_path)>>>>

SwaybgCommand(image_path, mode) ==
    <<"swaymsg", "output", "*", "bg", image_path,
      SwayMode(effective_mode(mode, image_path))>>

SwwwImg(binary, image_path, mode) ==
    <<binary, "img", image_path, "--resize",
      SwwwMode(effective_mode(mode, image_path))>>

(***************************************************************************)
(* run_command and the backends' apply, preview and restore. A call's      *)
(* outs[i] is what happens to the i-th command it issues: "ok" (exit 0),   *)
(* "nonzero", or "oserror" (the command cannot be spawned). A result is a  *)
(* BackendResult with the commands issued; failed is the position of the   *)
(* command whose error it carries; raised is an exception that escapes.    *)
(***************************************************************************)

\* The longest command sequence of one call: swww's query, init,
\* swww-daemon, img; GNOME's three writes and restore's fourth.
MaxCommands == 4

CommandOutcomes == {"ok", "nonzero", "oserror"}

\* A run_command that does not catch OSError.
run_command_uncaught(out) ==
    [ok |-> out = "ok", raised |-> out = "oserror",
     error |-> IF out = "ok" THEN "" ELSE out]

run_command(out) ==
    [ok |-> out = "ok", raised |-> FALSE,
     error |-> IF out = "ok" THEN "" ELSE out]

Succeeded(issued) ==
    [issued |-> issued, ok |-> TRUE, raised |-> FALSE, failed |-> 0,
     error |-> ""]

\* The result of a call whose last issued command failed with r.
FailedWith(issued, r) ==
    [issued |-> issued, ok |-> FALSE, raised |-> r.raised,
     failed |-> Len(issued), error |-> r.error]

\* for command in commands: result = run_command(command); if not
\* result.ok: return result
RECURSIVE run_each(_, _, _)
run_each(commands, outs, issued) ==
    IF commands = <<>> THEN Succeeded(issued)
    ELSE IF run_command(outs[Len(issued) + 1]).ok
    THEN run_each(Tail(commands), outs, Append(issued, Head(commands)))
    ELSE FailedWith(Append(issued, Head(commands)),
                    run_command(outs[Len(issued) + 1]))

\* SwwwBackend._ensure_daemon: query's OSError is caught in place; a
\* non-zero query starts the daemon with init and then, for swww, with
\* swww-daemon if it is on PATH; if both fail it returns init's result.
ensure_daemon(binary, outs, which_daemon) ==
    IF outs[1] = "oserror"
    THEN [issued |-> <<<<binary, "query">>>>, ok |-> FALSE, raised |-> FALSE,
          failed |-> 1, error |-> "oserror"]
    ELSE IF outs[1] = "ok" THEN Succeeded(<<<<binary, "query">>>>)
    ELSE IF run_command(outs[2]).ok
    THEN Succeeded(<<<<binary, "query">>, <<binary, "init">>>>)
    ELSE IF binary = "swww" /\ which_daemon
    THEN IF run_command(outs[3]).ok
         THEN Succeeded(<<<<binary, "query">>, <<binary, "init">>,
                          <<"swww-daemon">>>>)
         ELSE [issued |-> <<<<binary, "query">>, <<binary, "init">>,
                            <<"swww-daemon">>>>,
               ok |-> FALSE,
               raised |-> run_command(outs[2]).raised
                          \/ run_command(outs[3]).raised,
               failed |-> 2, error |-> run_command(outs[2]).error]
    ELSE FailedWith(<<<<binary, "query">>, <<binary, "init">>>>,
                    run_command(outs[2]))

SwwwApply(binary, image_path, mode, outs, init_result) ==
    IF ~init_result.ok THEN init_result
    ELSE run_each(<<SwwwImg(binary, image_path, mode)>>, outs,
                  init_result.issued)

apply(b, image_path, mode, persist_now, outs, which_daemon) ==
    CASE b = "feh" ->
           run_each(<<FehCommand(image_path, mode, persist_now)>>, outs, <<>>)
      [] b = "gnome" -> run_each(GnomeCommands(image_path, mode), outs, <<>>)
      [] b = "hyprpaper" -> run_each(HyprpaperCommands(image_path), outs, <<>>)
      [] b = "swaybg" ->
           run_each(<<SwaybgCommand(image_path, mode)>>, outs, <<>>)
      [] b \in {"swww", "awww"} ->
           SwwwApply(b, image_path, mode, outs,
                     ensure_daemon(b, outs, which_daemon))

preview(b, image_path, mode, outs, which_daemon) ==
    apply(b, image_path, mode, FALSE, outs, which_daemon)

NotFound ==
    [issued |-> <<>>, ok |-> FALSE, raised |-> FALSE, failed |-> 0,
     error |-> "Wallpaper not found"]

\* CommandBackend.restore
default_restore(b, state, outs, which_daemon) ==
    IF state.path \notin Files THEN NotFound
    ELSE apply(b, state.path, state.mode, FALSE, outs, which_daemon)

\* [str(item) for item in command]: the items shlex.split stored are
\* strings, and str leaves a string as it is.
StrItems(command) == [i \in DOMAIN command |-> command[i]]

\* A feh restore that always recomputes the invocation.
feh_restore_recomputed(state, outs) == default_restore("feh", state, outs, FALSE)

\* FehBackend.restore: state.command is backend_state.get("command");
\* kind is "list" for a list, "absent" for None, "other" for anything else.
feh_restore(state, outs) ==
    IF state.command.kind = "list" /\ state.command.items # <<>>
    THEN run_each(<<StrItems(state.command.items)>>, outs, <<>>)
    ELSE default_restore("feh", state, outs, FALSE)

\* GnomeBackend.restore
GnomeRestore(state, outs, result) ==
    IF ~result.ok THEN result
    ELSE IF state.picture_options # ""
    THEN run_each(<<GnomeSet("picture-options", state.picture_options)>>,
                  outs, result.issued)
    ELSE result

restore(b, state, outs, which_daemon) ==
    CASE b = "feh" -> feh_restore(state, outs)
      [] b = "gnome" ->
           GnomeRestore(state, outs,
                        apply("gnome", state.path, state.mode, FALSE, outs,
                              which_daemon))
      [] OTHER -> default_restore(b, state, outs, which_daemon)

(***************************************************************************)
(* What the commands leave for the next login: feh writes ~/.fehbg unless  *)
(* told --no-fehbg; gsettings writes the dconf keys GNOME reads; whether   *)
(* what swaymsg, hyprctl and swww set is kept is ipcDurable.               *)
(***************************************************************************)

ExecEffect(command, d, ipc) ==
    CASE command[1] = "feh" ->
           IF command[2] = "--no-fehbg" THEN d
           ELSE [image |-> command[Len(command)],
                 option |-> command[Len(command) - 1]]
      [] command[1] = "gsettings" ->
           IF command[4] = "picture-uri" THEN [d EXCEPT !.image = command[5]]
           ELSE IF command[4] = "picture-options"
           THEN [d EXCEPT !.option = command[5]]
           ELSE d
      [] command[1] = "swaymsg" ->
           IF ipc THEN [image |-> command[5], option |-> command[6]] ELSE d
      [] command[1] = "hyprctl" ->
           IF ipc /\ command[3] = "wallpaper"
           THEN [image |-> command[4], option |-> ""] ELSE d
      [] command[1] \in {"swww", "awww"} ->
           IF ipc /\ Len(command) > 1 /\ command[2] = "img"
           THEN [image |-> command[3], option |-> command[5]] ELSE d
      [] OTHER -> d

\* The store after the issued commands that succeeded, in order.
RECURSIVE Effects(_, _, _, _, _)
Effects(issued, outs, i, d, ipc) ==
    IF i > Len(issued) THEN d
    ELSE Effects(issued, outs, i + 1,
                 IF outs[i] = "ok" THEN ExecEffect(issued[i], d, ipc) ELSE d,
                 ipc)

(***************************************************************************)
(* Calls on one backend                                                    *)
(***************************************************************************)

Modes == {"auto", "fit"}

\* The commands a call on the backend can issue at most.
NumCommands(b) ==
    CASE b \in {"feh", "swaybg"} -> 1
      [] b = "hyprpaper" -> 2
      [] OTHER -> MaxCommands

\* What can happen to the commands of one call: only the outcomes of the
\* commands the backend can issue vary.
Outcomes(b) ==
    {outs \in [1 .. MaxCommands -> CommandOutcomes] :
        \A i \in 1 .. MaxCommands : i > NumCommands(b) => outs[i] = "ok"}

\* shutil.which("swww-daemon"), which only swww asks for.
Which(b) == IF b = "swww" THEN BOOLEAN ELSE {FALSE}

\* The command FehBackend.capture_current found in ~/.fehbg, written by an
\* earlier feh with --bg-scale.
StoredCommand == <<"feh", "--no-fehbg", "--bg-scale", UHD>>

\* The values of backend_state.get("command").
StoredCommands(b) ==
    IF b = "feh"
    THEN {[kind |-> "absent", items |-> <<>>], [kind |-> "list", items |-> <<>>],
          [kind |-> "other", items |-> <<>>],
          [kind |-> "list", items |-> StoredCommand]}
    ELSE {[kind |-> "absent", items |-> <<>>]}

\* The WallpaperStates restore is given.
RestoreStates(b) ==
    [path : {UHD, GONE}, mode : {"fit"}, command : StoredCommands(b),
     picture_options : IF b = "gnome" THEN {"", "stretched"} ELSE {""}]

BackendInit ==
    /\ RunnerInit /\ ClientInit /\ HistInit /\ NoPicker /\ NoMedia
    /\ NoRegistry /\ NoModes /\ NoLoad /\ NoTail
    /\ bkId \in Registered
    /\ ipcDurable \in BOOLEAN
    /\ durable = NoWallpaper
    /\ last = NoCall

Called(op, persist_now, r, outs) ==
    /\ last' = [op |-> op, persist_now |-> persist_now, issued |-> r.issued,
                ok |-> r.ok]
    /\ durable' = Effects(r.issued, outs, 1, durable, ipcDurable)
    /\ UNCHANGED <<bkId, ipcDurable, runnerVars, clientVars, histVars,
                   pickerVars, mediaVars, registryVars, modeVars, loadVars,
                   tailVars>>

\* backend.apply(image_path, mode, context, persist_now)
B_Apply ==
    \E image_path \in Files, mode \in Modes, persist_now \in BOOLEAN,
       outs \in Outcomes(bkId), which_daemon \in Which(bkId) :
        Called("apply", persist_now,
               apply(bkId, image_path, mode, persist_now, outs, which_daemon),
               outs)

\* backend.preview(image_path, mode, context)
B_Preview ==
    \E image_path \in Files, mode \in Modes,
       outs \in Outcomes(bkId), which_daemon \in Which(bkId) :
        Called("preview", FALSE,
               preview(bkId, image_path, mode, outs, which_daemon), outs)

\* backend.restore(state, context)
B_Restore ==
    \E state \in RestoreStates(bkId),
       outs \in Outcomes(bkId), which_daemon \in Which(bkId) :
        Called("restore", FALSE, restore(bkId, state, outs, which_daemon), outs)

BackendNext == B_Apply \/ B_Preview \/ B_Restore

BackendSpec == BackendInit /\ [][BackendNext]_vars

(***************************************************************************)
(* Backend calls                                                           *)
(***************************************************************************)

\* The name under which the backend's store holds an image.
DurableName(b, image_path) ==
    CASE b = "gnome" -> AsUri(image_path)
      [] b = "hyprpaper" -> AllMonitors(image_path)
      [] OTHER -> image_path

\* C27: for every backend, apply with persist_now=false, and so preview,
\* writes nothing to the store the backend's session restore reads at next
\* login, and a successful apply with persist_now=true sets it to the
\* image: no sequence of previews changes the store.
C27_PreviewLeavesDurableStore ==
    \A image_path \in Files, mode \in Modes, outs \in Outcomes(bkId),
       which_daemon \in Which(bkId) :
        /\ \A r \in {preview(bkId, image_path, mode, outs, which_daemon)} :
               Effects(r.issued, outs, 1, durable, ipcDurable) = durable
        /\ \A r \in {apply(bkId, image_path, mode, FALSE, outs, which_daemon)} :
               Effects(r.issued, outs, 1, durable, ipcDurable) = durable
        /\ \A r \in {apply(bkId, image_path, mode, TRUE, outs, which_daemon)} :
               r.ok => Effects(r.issued, outs, 1, durable, ipcDurable).image
                       = DurableName(bkId, image_path)

\* The commands of a default restore of a state whose image exists.
Reapplied(b, state, outs, which_daemon) ==
    apply(b, state.path, state.mode, FALSE, outs, which_daemon)

\* C28: restore on feh with a non-empty "command" list in backend_state
\* issues exactly that invocation, whatever the state's path and mode are;
\* without one it is the default restore, which for a missing image file
\* returns an error without issuing a command and otherwise applies the
\* state's image and mode with persist_now=false.
C28_RestoreReplaysStoredInvocation ==
    bkId # "gnome" =>
        \A state \in RestoreStates(bkId), outs \in Outcomes(bkId),
           which_daemon \in Which(bkId) :
            \A r \in {restore(bkId, state, outs, which_daemon)} :
                IF bkId = "feh" /\ state.command.kind = "list"
                   /\ state.command.items # <<>>
                THEN /\ r.issued = <<state.command.items>>
                     /\ r.ok <=> outs[1] = "ok"
                ELSE IF state.path \notin Files
                THEN r.issued = <<>> /\ ~r.ok /\ r.error = "Wallpaper not found"
                ELSE /\ r = Reapplied(bkId, state, outs, which_daemon)
                     /\ bkId = "feh" =>
                            r.issued = <<<<"feh", "--no-fehbg", "--bg-max",
                                           state.path>>>>

\* feh's restore replayed the stored --bg-scale invocation.
C28_Witness ==
    /\ bkId = "feh"
    /\ last.op = "restore"
    /\ last.issued = <<StoredCommand>>
    /\ last.ok

\* The commands of the backend's apply, in order; for swww the daemon
\* check is its query.
Sequence(b, image_path, mode, persist_now) ==
    CASE b = "feh" -> <<FehCommand(image_path, mode, persist_now)>>
      [] b = "gnome" -> GnomeCommands(image_path, mode)
      [] b = "hyprpaper" -> HyprpaperCommands(image_path)
      [] b = "swaybg" -> <<SwaybgCommand(image_path, mode)>>
      [] OTHER -> <<<<b, "query">>, SwwwImg(b, image_path, mode)>>

\* The result stops at the first failing command and carries its error;
\* it is ok only if the whole sequence was issued and succeeded.
StopsAtFirstFailure(r, outs, sequence) ==
    /\ ~r.raised
    /\ Len(r.issued) <= Len(sequence)
    /\ r.issued = SubSeq(sequence, 1, Len(r.issued))
    /\ \A i \in 1 .. Len(r.issued) - 1 : outs[i] = "ok"
    /\ r.ok => r.issued = sequence /\ outs[Len(r.issued)] = "ok"
               /\ r.failed = 0 /\ r.error = ""
    /\ ~r.ok => /\ r.failed = Len(r.issued)
                /\ outs[r.failed] # "ok"
                /\ r.error = outs[r.failed]

\* C29 as stated: for every backend, swww included, apply never raises,
\* reports the first failing command, issues nothing after a failure and
\* is ok only if every issued command succeeded.
C29_AllStopAtFirstFailure ==
    \A image_path \in Files, mode \in Modes, persist_now \in BOOLEAN,
       outs \in Outcomes(bkId), which_daemon \in Which(bkId) :
        StopsAtFirstFailure(
            apply(bkId, image_path, mode, persist_now, outs, which_daemon),
            outs, Sequence(bkId, image_path, mode, persist_now))

\* Whether swww's daemon answers or was started: query succeeded, or it
\* exited non-zero and init or, for swww with swww-daemon on PATH,
\* swww-daemon succeeded.
DaemonReady(b, outs, which_daemon) ==
    \/ outs[1] = "ok"
    \/ /\ outs[1] = "nonzero"
       /\ \/ outs[2] = "ok"
          \/ b = "swww" /\ which_daemon /\ outs[3] = "ok"

\* C29: apply never raises. For feh, GNOME, hyprpaper and swaybg it stops
\* at the first failing command, returns that command's error, and is ok
\* only if every command succeeded. For swww a non-zero query is no
\* failure: init and then swww-daemon are tried; img is issued only when
\* the daemon is ready, the result of an unready daemon is the error of
\* query's spawn or of init, and ok means that img succeeded.
C29_FailuresAreResults ==
    \A image_path \in Files, mode \in Modes, persist_now \in BOOLEAN,
       outs \in Outcomes(bkId), which_daemon \in Which(bkId) :
        \A r \in {apply(bkId, image_path, mode, persist_now, outs,
                        which_daemon)} :
            IF bkId \notin {"swww", "awww"}
            THEN StopsAtFirstFailure(r, outs,
                     Sequence(bkId, image_path, mode, persist_now))
            ELSE /\ ~r.raised
                 /\ r.issued[1] = <<bkId, "query">>
                 /\ SwwwImg(bkId, image_path, mode) \in Range(r.issued)
                        <=> DaemonReady(bkId, outs, which_daemon)
                 /\ r.ok <=> /\ DaemonReady(bkId, outs, which_daemon)
                             /\ outs[Len(r.issued)] = "ok"
                 /\ r.ok => r.issued[Len(r.issued)]
                            = SwwwImg(bkId, image_path, mode)
                 /\ ~r.ok => /\ r.failed \in 1 .. Len(r.issued)
                             /\ outs[r.failed] # "ok"
                             /\ r.error = outs[r.failed]
                 /\ ~r.ok /\ ~DaemonReady(bkId, outs, which_daemon) =>
                        r.failed = IF outs[1] = "oserror" THEN 1 ELSE 2

\* GNOME's apply failed at its second write and did not issue the third.
C29_Witness ==
    /\ bkId = "gnome"
    /\ last.op = "apply"
    /\ ~last.ok
    /\ Len(last.issued) = 2

(***************************************************************************)
(* load_last_selection (src/fay/app.py)                                    *)
(***************************************************************************)

\* What payload.get gives for a key whose value is a string: "<missing>"
\* is None (no such key, or null), "<int>" a number.
StrFields(value) == {"<missing>", "<int>", value}

\* What payload.get("backend_state") gives: None, a list, or a dict.
StateFields == {"<missing>", "<list>", "<dict>"}

\* The state file: missing; unreadable (read_text raises OSError); not
\* UTF-8; not JSON; JSON that is no object; or an object whose four keys
\* each are absent, of a wrong type, or of the right one.
StateFiles ==
    {FileOf(kind) : kind \in {"missing", "unreadable", "not utf-8", "not json",
                              "list", "string", "null"}}
    \cup [kind : {"object"}, backend_id : StrFields("feh"),
          image_path : StrFields(UHD), mode : StrFields("fit"),
          backend_state : StateFields]

isinstance_str(value) == value \notin {"<missing>", "<int>"}

isinstance_dict(value) == value = "<dict>"

\* mode = "fill" if it is no string
ModeOrFill(mode) == IF ~isinstance_str(mode) THEN "fill" ELSE mode

\* backend_state = {} if it is no dict
StateOrEmpty(backend_state) ==
    IF ~isinstance_dict(backend_state) THEN "{}" ELSE backend_state

load_last_selection(file) ==
    IF file.kind = "missing" THEN NotAState("None")
    ELSE IF file.kind = "unreadable" THEN NotAState("None")
    ELSE IF file.kind = "not utf-8" THEN NotAState("UnicodeDecodeError")
    ELSE IF file.kind = "not json" THEN NotAState("None")
    ELSE IF file.kind # "object" THEN NotAState("AttributeError")
    ELSE IF ~isinstance_str(file.backend_id) \/ ~isinstance_str(file.image_path)
    THEN NotAState("None")
    ELSE [kind |-> "WallpaperState", backend_id |-> file.backend_id,
          image_path |-> file.image_path, mode |-> ModeOrFill(file.mode),
          backend_state |-> StateOrEmpty(file.backend_state)]

LoadInit ==
    /\ RunnerInit /\ ClientInit /\ HistInit /\ NoPicker /\ NoMedia
    /\ NoRegistry /\ NoModes /\ NoBackend /\ NoTail
    /\ stateFile \in StateFiles
    /\ loaded = NotAState("unset")

\* state = load_last_selection()
Load ==
    /\ loaded.kind = "unset"
    /\ loaded' = load_last_selection(stateFile)
    /\ UNCHANGED <<stateFile, runnerVars, clientVars, histVars, pickerVars,
                   mediaVars, registryVars, modeVars, backendVars, tailVars>>

LoadNext == Load

LoadSpec == LoadInit /\ [][LoadNext]_vars

\* The file is a JSON object with all four fields of the right types.
WellFormed(file) ==
    /\ file.kind = "object"
    /\ isinstance_str(file.backend_id) /\ isinstance_str(file.image_path)
    /\ isinstance_str(file.mode) /\ isinstance_dict(file.backend_state)

\* C30: load_last_selection fails closed: when the record is missing,
\* unreadable, not valid JSON, or lacks one of backend_id, image_path,
\* mode, backend_state or has it with a wrong type, it returns None; it
\* returns no partially defaulted state and raises no exception.
C30_LoadFailsClosed ==
    loaded.kind # "unset" =>
        /\ loaded.kind \in {"None", "WallpaperState"}
        /\ loaded.kind = "WallpaperState" <=> WellFormed(stateFile)
        /\ loaded.kind = "WallpaperState" =>
               /\ loaded.backend_id = stateFile.backend_id
               /\ loaded.image_path = stateFile.image_path
               /\ loaded.mode = stateFile.mode
               /\ loaded.backend_state = stateFile.backend_state

(***************************************************************************)
(* run_picker and run_restore (src/fay/app.py) from the call to the        *)
(* return, with the frame loop and the runner's shutdown as one step, and  *)
(* save_last_selection step by step.                                       *)
(***************************************************************************)

\* Some environments detect_environment can report: nothing usable, an X11
\* session with feh, a GNOME session with gsettings, and one with both.
RunEnvs ==
    {NoEnv,
     [NoEnv EXCEPT !.session_type = "x11", !.x_display = TRUE,
                   !.commands = {"feh"}],
     [NoEnv EXCEPT !.session_type = "wayland", !.wayland_display = TRUE,
                   !.desktop = "gnome:gnome", !.commands = {"gsettings"}],
     [NoEnv EXCEPT !.session_type = "x11", !.x_display = TRUE,
                   !.desktop = "gnome:gnome", !.commands = {"feh", "gsettings"}]}

\* The values of args.backend.
RunIds == {"auto", "feh", "xwallpaper"}

\* The JSON object save_last_selection writes for WallpaperState(backend_id,
\* image_path, mode): backend_state is the default, an empty dict.
Payload(backend_id, image_path, mode) ==
    [kind |-> "object", backend_id |-> backend_id, image_path |-> image_path,
     mode |-> mode, backend_state |-> "<dict>"]

\* The file open(path, "w") leaves before anything is written: empty, which
\* is no JSON.
Truncated == FileOf("not json")

\* What the actions of a command leave alone.
runRest == <<runnerVars, clientVars, histVars, picker, reqMode, selected, lastAuto, imgOf, sharedVars, mediaVars, env, reqId, modeVars, backendVars, cmd, fileBefore, gnomeVars>>

RunInit ==
    /\ RunnerInit /\ ClientInit /\ HistInit /\ NoMedia
    /\ NoModes /\ NoBackend /\ NoGnome
    /\ picker = FALSE
    /\ reqMode \in {"auto", "fill"}
    /\ backend = "none"
    /\ startupState = FALSE
    /\ selected = 1
    /\ lastAuto = 0
    /\ exitKind = "cancel"
    /\ imgOf = <<>>
    /\ sizeCache = {}
    /\ cacheTouched = {}
    /\ wallpaper = 0
    /\ env \in RunEnvs
    /\ reqId \in RunIds
    /\ choice = NoChoice
    /\ stateFile \in StateFiles
    /\ loaded = NotAState("unset")
    /\ cmd \in {"picker", "restore"}
    /\ mpc = "start"
    /\ rc = -1
    /\ finalOk = TRUE
    /\ fileBefore = stateFile
    /\ restoreCall = "none"
    /\ toSave = FileOf("None")

\* run_picker: registry.resolve(env, args.backend); no backend returns 1.
M_Resolve ==
    /\ cmd = "picker" /\ mpc = "start"
    /\ choice' = resolve(env, reqId)
    /\ backend' = choice'.backend
    /\ IF choice'.backend = "none"
         THEN rc' = 1 /\ mpc' = "returned"
         ELSE rc' = rc /\ mpc' = "lock"
    /\ UNCHANGED <<runRest, startupState, exitKind, stateFile, loaded, finalOk,
                   restoreCall, toSave>>

\* acquire_single_instance_lock: held by another instance returns 0.
M_Lock ==
    /\ mpc = "lock"
    /\ \E got \in BOOLEAN :
         IF got THEN rc' = rc /\ mpc' = "capture"
                ELSE rc' = 0 /\ mpc' = "returned"
    /\ UNCHANGED <<runRest, choice, backend, startupState, exitKind, stateFile,
                   loaded, finalOk, restoreCall, toSave>>

\* startup_state = backend.capture_current()
M_Capture ==
    /\ mpc = "capture"
    /\ startupState' \in BOOLEAN
    /\ mpc' = "loop"
    /\ UNCHANGED <<runRest, choice, backend, exitKind, stateFile, loaded, rc,
                   finalOk, restoreCall, toSave>>

\* The frame loop until it is left, and preview_runner.shutdown: by cancel
\* with final_result as initialised, or by Enter with the result of the
\* confirming apply of the selected image.
M_Loop ==
    /\ mpc = "loop"
    /\ \E kind \in {"cancel", "confirm", "error"}, image \in Files :
         /\ exitKind' = kind
         /\ finalOk' = (kind # "error")
         /\ toSave' = IF kind = "confirm"
                        THEN Payload(backend, image, effective_mode(reqMode, image))
                        ELSE FileOf("None")
    /\ mpc' = "restore"
    /\ UNCHANGED <<runRest, choice, backend, startupState, stateFile, loaded, rc,
                   restoreCall>>

\* if exit_kind == "cancel" and startup_state is not None: backend.restore
M_Restore ==
    /\ mpc = "restore"
    /\ IF exitKind = "cancel" /\ startupState
         THEN \E ok \in BOOLEAN : restoreCall' = IF ok THEN "ok" ELSE "failed"
         ELSE UNCHANGED restoreCall
    /\ mpc' = "save"
    /\ UNCHANGED <<runRest, choice, backend, startupState, exitKind, stateFile,
                   loaded, rc, finalOk, toSave>>

\* if exit_kind == "confirm" and final_state_to_save is not None:
\* save_last_selection is entered.
M_Save ==
    /\ mpc = "save"
    /\ mpc' = IF exitKind = "confirm" /\ toSave.kind # "None" THEN "mkdir"
                                                                ELSE "return"
    /\ UNCHANGED <<runRest, choice, backend, startupState, exitKind, stateFile,
                   loaded, rc, finalOk, restoreCall, toSave>>

\* path.parent.mkdir(parents=True, exist_ok=True); an OSError ends the save.
S_Mkdir ==
    /\ mpc = "mkdir"
    /\ \E ok \in BOOLEAN : mpc' = IF ok THEN "open" ELSE "return"
    /\ UNCHANGED <<runRest, choice, backend, startupState, exitKind, stateFile,
                   loaded, rc, finalOk, restoreCall, toSave>>

\* write_text opens the file itself for writing, which empties it; an
\* OSError ends the save with the file as it was.
S_Open ==
    /\ mpc = "open"
    /\ \E ok \in BOOLEAN :
         IF ok THEN stateFile' = Truncated /\ mpc' = "write"
               ELSE stateFile' = stateFile /\ mpc' = "return"
    /\ UNCHANGED <<runRest, choice, backend, startupState, exitKind, loaded, rc,
                   finalOk, restoreCall, toSave>>

\* write_text writes the text and closes the file; an OSError (disk full)
\* ends the save with the file still empty.
S_Write ==
    /\ mpc = "write"
    /\ \E ok \in BOOLEAN : stateFile' = IF ok THEN toSave ELSE stateFile
    /\ mpc' = "return"
    /\ UNCHANGED <<runRest, choice, backend, startupState, exitKind, loaded, rc,
                   finalOk, restoreCall, toSave>>

\* The process is killed while it is in save_last_selection.
S_Crash ==
    /\ mpc \in {"mkdir", "open", "write"}
    /\ mpc' = "crashed"
    /\ UNCHANGED <<runRest, choice, backend, startupState, exitKind, stateFile,
                   loaded, rc, finalOk, restoreCall, toSave>>

\* Another process (fay restore) calls load_last_selection while the picker
\* runs or after it ended.
ConcurrentLoad ==
    /\ cmd = "picker"
    /\ loaded' = load_last_selection(stateFile)
    /\ UNCHANGED <<runRest, choice, backend, startupState, exitKind, stateFile,
                   mpc, rc, finalOk, restoreCall, toSave>>

\* if not final_result.ok: return 1; return 0
M_Return ==
    /\ mpc = "return"
    /\ rc' = IF ~finalOk THEN 1 ELSE 0
    /\ mpc' = "returned"
    /\ UNCHANGED <<runRest, choice, backend, startupState, exitKind, stateFile,
                   loaded, finalOk, restoreCall, toSave>>

\* run_restore: state = load_last_selection(); None returns 1, an exception
\* of the load leaves run_restore.
T_Load ==
    /\ cmd = "restore" /\ mpc = "start"
    /\ loaded' = load_last_selection(stateFile)
    /\ IF loaded'.kind = "None" THEN rc' = 1 /\ mpc' = "returned"
       ELSE IF loaded'.kind = "WallpaperState" THEN rc' = rc /\ mpc' = "resolve"
       ELSE rc' = rc /\ mpc' = "raised"
    /\ UNCHANGED <<runRest, choice, backend, startupState, exitKind, stateFile,
                   finalOk, restoreCall, toSave>>

\* run_restore: the backend asked for, or for "auto" the saved one if it is
\* registered and available, else the auto resolution; none returns 1.
T_Resolve ==
    /\ mpc = "resolve"
    /\ IF reqId # "auto"
         THEN choice' = resolve(env, reqId) /\ backend' = choice'.backend
         ELSE IF /\ registry_get(loaded.backend_id) # "none"
                 /\ is_available(registry_get(loaded.backend_id), env)
         THEN backend' = registry_get(loaded.backend_id) /\ choice' = choice
         ELSE choice' = resolve(env, "auto") /\ backend' = choice'.backend
    /\ IF backend' = "none" THEN rc' = 1 /\ mpc' = "returned"
                            ELSE rc' = rc /\ mpc' = "apply"
    /\ UNCHANGED <<runRest, startupState, exitKind, stateFile, loaded, finalOk,
                   restoreCall, toSave>>

\* run_restore: backend.apply(state.path, state.mode, apply_context,
\* persist_now=True); a result that is not ok returns 1, else 0.
T_Apply ==
    /\ mpc = "apply"
    /\ \E ok \in BOOLEAN :
         /\ finalOk' = ok
         /\ rc' = IF ~ok THEN 1 ELSE 0
    /\ mpc' = "returned"
    /\ UNCHANGED <<runRest, choice, backend, startupState, exitKind, stateFile,
                   loaded, restoreCall, toSave>>

RunNext ==
    \/ M_Resolve
    \/ M_Lock
    \/ M_Capture
    \/ M_Loop
    \/ M_Restore
    \/ M_Save
    \/ S_Mkdir
    \/ S_Open
    \/ S_Write
    \/ S_Crash
    \/ ConcurrentLoad
    \/ M_Return
    \/ T_Load
    \/ T_Resolve
    \/ T_Apply

RunSpec == RunInit /\ [][RunNext]_vars

(***************************************************************************)
(* The state file and the process outcome                                  *)
(***************************************************************************)

\* The state file differs from what it was only in a picker run that was
\* left by a confirm whose apply succeeded.
WrittenOnlyAfterConfirmedApply ==
    stateFile # fileBefore =>
        cmd = "picker" /\ exitKind = "confirm" /\ finalOk

\* C31: the last-selection state file is written only after a confirmed
\* selection whose apply succeeded, and the write is atomic: the file, as a
\* crash during save_last_selection leaves it, and what a concurrent
\* load_last_selection gets from it, is the complete previous record or the
\* complete new record, never an empty or partial file.
C31_SaveIsAtomic ==
    cmd = "picker" =>
        /\ WrittenOnlyAfterConfirmedApply
        /\ stateFile = fileBefore \/ (toSave.kind = "object" /\ stateFile = toSave)
        /\ loaded.kind # "unset" =>
               \/ loaded = load_last_selection(fileBefore)
               \/ toSave.kind = "object" /\ loaded = load_last_selection(toSave)

\* The return codes of the runs in which load_last_selection returned.
OutcomeAsDocumented ==
    /\ cmd = "picker" =>
           /\ rc \in {0, 1}
           /\ rc = 1 <=> (backend = "none" \/ exitKind = "error")
    /\ cmd = "restore" =>
           rc = IF loaded.kind # "WallpaperState" \/ backend = "none" \/ ~finalOk
                THEN 1 ELSE 0

\* Every run that returned has the documented return code.
ReturnedAsDocumented == mpc = "returned" => OutcomeAsDocumented

\* C32: run_picker returns 1 exactly when backend resolution fails or the
\* confirming apply fails, and 0 on a successful confirm or on cancel,
\* whatever restore returned; run_restore returns 1 when there is no saved
\* selection, backend resolution fails or apply fails, and 0 otherwise.
C32_ProcessOutcome ==
    mpc \in {"returned", "raised"} => OutcomeAsDocumented

(***************************************************************************)
(* Termination of shutdown                                                 *)
(***************************************************************************)

\* C33: shutdown always terminates when every started action terminates:
\* for both flush_pending values and every interleaving of submit, worker
\* steps and shutdown, a shutdown that was called returns, which it does
\* only after the worker thread has ended; and the worker has ended only
\* with the runner closed and the slot empty.
C33_ShutdownTerminates ==
    /\ [](wpc = "done" => closed /\ pending = 0 /\ ~running)
    /\ [](sd = "returned" => wpc = "done")
    /\ (sd = "called") ~> (sd = "returned")

\* A flushing shutdown returned after the worker had run an action.
C33_Witness ==
    /\ sd = "returned"
    /\ flush
    /\ wpc = "done"
    /\ started # <<>>

(***************************************************************************)
(* The last wallpaper-changing call of run_picker                          *)
(***************************************************************************)

\* The worker's positions inside a preview action.
InPreview == {"inaction", "probe", "cmd"}

\* C34: after the user confirms, the confirming apply(persist_now=true) is
\* the last wallpaper-changing backend call to complete: no preview is
\* executing while it runs, none is executing after it, and when run_picker
\* ends the wallpaper shown is the confirmed image.
C34_ConfirmedApplyIsLast ==
    /\ rpc = "applying" => wpc \notin InPreview
    /\ exitKind = "confirm" => wpc \notin InPreview
    /\ rpc = "end" /\ exitKind = "confirm" => wallpaper = selected

\* C35: on cancel with a captured startup state, backend.restore is invoked
\* only after the runner's worker has terminated, so no preview is executing
\* when restore starts and none starts or completes after it, and the
\* wallpaper a successful restore sets is the one shown when run_picker
\* ends; with no captured state, or on another exit, restore is not invoked.
C35_RestoreAfterWorkerEnded ==
    /\ rpc \in {"post", "end"} => wpc = "done" /\ Range(started) \subseteq finished
    /\ restoreCall # "none" => rpc = "end" /\ exitKind = "cancel" /\ startupState
    /\ rpc = "end" /\ exitKind = "cancel" /\ startupState => restoreCall # "none"
    /\ restoreCall = "ok" => wallpaper = 0

\* A cancel while a preview was executing: shutdown waited for it, the
\* preview changed the wallpaper, and restore put the startup one back.
C35_Witness ==
    /\ rpc = "end"
    /\ restoreCall = "ok"
    /\ runAtCall # 0
    /\ runAtCall \in finished
    /\ wallpaper = 0

(***************************************************************************)
(* GnomeBackend.capture_current and the settings the gsettings commands    *)
(* write (src/fay/backends/gnome.py)                                       *)
(***************************************************************************)

\* Values of picture-options: two that GNOME_MODE_MAP maps to, one it does
\* not.
GnomeOptions == {"zoom", "scaled", "stretched"}

\* Values of picture-uri and picture-uri-dark: the images, unset, and a URI
\* that is no file.
Uris == {"file:///w/uhd.png", "file:///w/small.png", "", "https://w/uhd.png"}

\* _path_from_uri: "none" is None.
path_from_uri(uri) ==
    CASE uri = "file:///w/uhd.png" -> UHD
      [] uri = "file:///w/small.png" -> SMALL
      [] OTHER -> "none"

\* reverse_mode[mode] if mode in reverse_mode, else "fill"
NormalizedMode(mode) ==
    CASE mode = "zoom" -> "fill"
      [] mode = "scaled" -> "fit"
      [] mode = "centered" -> "center"
      [] mode = "wallpaper" -> "tile"
      [] OTHER -> "fill"

\* _read_gsettings: the key's value, or None ("<None>") when gsettings get
\* cannot be run or exits non-zero.
read_gsettings(value, read) == IF read THEN value ELSE "<None>"

\* What capture_current makes of the two values read; a picture_options of
\* "" stands for a backend_state entry that is None.
CaptureOf(uri, mode) ==
    IF uri \in {"<None>", ""} THEN NotCaptured("None")
    ELSE IF path_from_uri(uri) = "none" THEN NotCaptured("None")
    ELSE [kind |-> "WallpaperState", path |-> path_from_uri(uri),
          mode |-> NormalizedMode(mode),
          picture_options |-> IF mode = "<None>" THEN "" ELSE mode]

capture_current(settings, uri_read, mode_read) ==
    CaptureOf(read_gsettings(settings.uri, uri_read),
              read_gsettings(settings.options, mode_read))

\* gsettings set org.gnome.desktop.background <key> <value>
GSet(command, settings) ==
    IF command[4] = "picture-options" THEN [settings EXCEPT !.options = command[5]]
    ELSE IF command[4] = "picture-uri" THEN [settings EXCEPT !.uri = command[5]]
    ELSE IF command[4] = "picture-uri-dark" THEN [settings EXCEPT !.dark = command[5]]
    ELSE settings

\* The settings after the issued commands that succeeded, in order.
RECURSIVE SettingsAfter(_, _, _, _)
SettingsAfter(issued, outs, i, settings) ==
    IF i > Len(issued) THEN settings
    ELSE SettingsAfter(issued, outs, i + 1,
                       IF outs[i] = "ok" THEN GSet(issued[i], settings)
                                         ELSE settings)

\* What can happen to the gsettings commands of one call: each exits with 0
\* or with another code.
GnomeOutcomes == [1 .. MaxCommands -> {"ok", "nonzero"}]

\* A GNOME session with any background settings; nothing captured yet.
GnomeInit ==
    /\ RunnerInit /\ ClientInit /\ HistInit /\ NoPicker /\ NoMedia
    /\ NoRegistry /\ NoModes /\ NoLoad /\ NoMain
    /\ bkId = "gnome"
    /\ ipcDurable = FALSE
    /\ dconf \in [options : GnomeOptions, uri : Uris, dark : Uris]
    /\ durable = [image |-> dconf.uri, option |-> dconf.options]
    /\ last = NoCall
    /\ dconfAtCapture = dconf
    /\ captured = NotCaptured("unset")

\* What a call on the GNOME backend leaves alone.
gnomeRest == <<bkId, ipcDurable, runnerVars, clientVars, histVars, pickerVars, mediaVars, registryVars, modeVars, loadVars, mainVars>>

\* startup_state = backend.capture_current()
G_Capture ==
    /\ captured.kind = "unset"
    /\ \E uri_read \in BOOLEAN, mode_read \in BOOLEAN :
         captured' = capture_current(dconf, uri_read, mode_read)
    /\ dconfAtCapture' = dconf
    /\ UNCHANGED <<dconf, durable, last, gnomeRest>>

\* A call that returned r after issuing r.issued with the outcomes outs.
G_Called(op, persist_now, r, outs) ==
    /\ last' = [op |-> op, persist_now |-> persist_now, issued |-> r.issued,
                ok |-> r.ok]
    /\ dconf' = SettingsAfter(r.issued, outs, 1, dconf)
    /\ durable' = Effects(r.issued, outs, 1, durable, ipcDurable)
    /\ UNCHANGED <<dconfAtCapture, captured, gnomeRest>>

\* backend.apply(image_path, mode, context, persist_now=True) on Enter
G_Apply ==
    /\ captured.kind # "unset"
    /\ \E image_path \in Files, mode \in Modes, outs \in GnomeOutcomes :
         G_Called("apply", TRUE,
                  apply("gnome", image_path, mode, TRUE, outs, FALSE), outs)

\* backend.preview(image_path, mode, context)
G_Preview ==
    /\ captured.kind # "unset"
    /\ \E image_path \in Files, mode \in Modes, outs \in GnomeOutcomes :
         G_Called("preview", FALSE,
                  preview("gnome", image_path, mode, outs, FALSE), outs)

\* backend.restore(startup_state, context)
G_Restore ==
    /\ captured.kind = "WallpaperState"
    /\ \E outs \in GnomeOutcomes :
         G_Called("restore", FALSE, restore("gnome", captured, outs, FALSE), outs)

GnomeNext == G_Capture \/ G_Apply \/ G_Preview \/ G_Restore

GnomeSpec == GnomeInit /\ [][GnomeNext]_vars

\* After a successful restore of a state captured with both reads
\* succeeding, picture-options and picture-uri are as they were at capture.
RestoresOptionsAndUri ==
    last.op = "restore" /\ last.ok /\ captured.picture_options # "" =>
        /\ dconf.options = dconfAtCapture.options
        /\ dconf.uri = dconfAtCapture.uri

\* C36: GNOME capture/restore round trip: after capture_current returned a
\* state and any apply/preview calls, a successful restore of that state
\* leaves picture-options, picture-uri and picture-uri-dark equal to their
\* values at capture time, also when the captured picture-options is none
\* of the four mapped modes.
C36_GnomeRoundTrip ==
    last.op = "restore" /\ last.ok => dconf = dconfAtCapture

(***************************************************************************)
(* The texture cache with any max_items                                    *)
(***************************************************************************)

\* The caches just built, with any max_items TextureCache.__init__ accepts
\* (it takes any int; 0 is the least that matters).
AnySizeInit ==
    /\ RunnerInit /\ ClientInit /\ HistInit /\ NoPicker
    /\ \E ex \in SUBSET Thumbs : store = NewStore(ex, ex)
    /\ cache = <<>>
    /\ texFailed = {}
    /\ maxItems \in 0..MaxItems
    /\ gpu = NoTextures
    /\ useOrder = <<>>
    /\ NoExt

AnySizeSpec == AnySizeInit /\ [][MediaNext]_vars

\* The handle a get returns is live and held by the cache as the get
\* leaves it.
ReturnsHeldHandle(r) ==
    r.got # 0 => r.got \in r.gpu.live /\ r.got \in Handles(r.cache)

\* With max_items of 1 or more, every get returns None or a held handle.
GetReturnsHeldHandle ==
    maxItems >= 1 =>
        \A img \in Thumbs, ok \in BOOLEAN : ReturnsHeldHandle(GetResult(img, ok))

\* C37: TextureCache.get never returns a handle that has already been
\* released: for every max_items and in every state get and clear lead to,
\* the handle a get returns is still held by the cache, not evicted by that
\* same call, when it is returned.
C37_GetNeverReturnsReleased ==
    \A img \in Thumbs, ok \in BOOLEAN : ReturnsHeldHandle(GetResult(img, ok))

(***************************************************************************)
(* The store's bookkeeping, and what a reload resets                       *)
(***************************************************************************)

\* The keys of the jobs in a queue.
QueuedKeys(q) == {q[k][2] : k \in DOMAIN q}

\* C38: in every state request and process lead to, pending_set is exactly
\* the set of keys of the jobs in the pending queue, and no key is both
\* pending and in the failed set.
C38_BookkeepingInvariant ==
    /\ store.pending_set = QueuedKeys(store.pending)
    /\ store.pending_set \cap store.failed = {}
    /\ QueuedKeys(store.pending) \cap store.failed = {}

\* A build has failed, another job was done, and a job is still queued.
C38_Witness ==
    /\ store.pending # <<>>
    /\ store.failed # {}
    /\ Cardinality(store.exists) + Cardinality(store.failed) + Len(store.pending) = NumThumbs

\* A step in which clear emptied something: only clear empties the cache
\* or the texture-load failed set.
ClearStep ==
    \/ cache # <<>> /\ cache' = <<>>
    \/ texFailed # {} /\ texFailed' = {}

\* C39: TextureCache.clear, and so the picker's reload key, leaves the
\* ThumbnailStore's pending queue, pending set and failed set unchanged and
\* resets only the texture-load failed set: after it a thumbnail whose build
\* failed is still not enqueued or loaded, while a texture whose upload
\* failed is uploaded again by the next get.
C39_ClearLeavesStore ==
    [][ClearStep =>
          /\ store' = store
          /\ texFailed' = {}
          /\ \A img \in Thumbs :
               /\ PathFor(img) \in store.failed =>
                      /\ (RequestSt(store, img) = store)'
                      /\ (GetResult(img, TRUE).got = 0)'
                      /\ (GetResult(img, TRUE).store = store)'
               /\ PathFor(img) \in texFailed =>
                      /\ GetResult(img, TRUE).got = 0
                      /\ (GetResult(img, TRUE).got # 0)']_vars

\* A reload is about to find a failed build, a failed upload and a held
\* texture.
C39_Witness ==
    /\ store.failed # {}
    /\ texFailed # {}
    /\ cache # <<>>

====
